---- MODULE Spec2Model ----
(***************************************************************************)
(* LCARS-at-Home: deployment configuration and health verification.        *)
(*                                                                         *)
(* Model of scripts/deploy_config.py, scripts/health_check.py and the      *)
(* custom-deployment page of lcars_guide.py.                               *)
(*                                                                         *)
(* Data representation                                                     *)
(*   - a Python str is a sequence of lexical tokens (a run of name         *)
(*     characters, or one delimiter such as "://", ":", "/", "?", "[",     *)
(*     "{}"); concatenation is \o and "" is <<>>;                          *)
(*   - an Optional value is None, the empty tuple, or Some(v), <<v>>;      *)
(*   - a dataclass instance is a record with the dataclass' field names.   *)
(***************************************************************************)
EXTENDS Integers, Sequences, FiniteSets, TLC

VARIABLES
    svc,                 \* probe bench: the ServiceConfig under test
    health,              \* probe bench: the last check_service_health(svc) call
    http,                \* probe bench: the last check_http_endpoint call
    docker,              \* container bench: the last check_docker_containers call
    registry,            \* file bench: the registry handed to the generators, a dict as its items
    override,            \* file bench: the generate_docker_compose_override results so far
    loaded,              \* file bench: the last load_deployment_config call
    DEFAULT_SERVICES,    \* deploy_config.DEFAULT_SERVICES (a module-level dict of objects)
    deployment_mode,     \* st.session_state.deployment_mode: "none", "standard", "custom"
    deployment_config,   \* st.session_state.deployment_config: None or Some(registry)
    shared,              \* keys whose session entry is the very object of DEFAULT_SERVICES
    last_scan,           \* the latest detect_existing_services() call: network met, value returned
    deployment_last_discovery, \* st.session_state.deployment_last_discovery: None or Some(summary)
    deployment_service_health, \* st.session_state.deployment_service_health: per key "none", "ok", "failed"
    config_file,         \* docker/deployment_config.json: None (no file) or Some(content)
    override_file,       \* docker/docker-compose.override.yml: None (no file) or Some(lines)
    env_file,            \* docker/.env: None (no file) or Some(text)
    save_call,           \* save bench: the position of a save_deployment_config call
    env,                 \* env bench: the last upsert_env_var call
    report,              \* health bench: the last run of the health check CLI
    validation           \* validation bench: the last validate_port / validate_hostname call

vars == <<svc, health, http, docker, registry, override, loaded, DEFAULT_SERVICES,
          deployment_mode, deployment_config, shared, last_scan,
          deployment_last_discovery, deployment_service_health, config_file,
          override_file, env_file, save_call, env, report, validation>>

probeVars == <<svc, health, http, docker>>
fileVars  == <<registry, override, loaded>>
toolVars  == <<save_call, env, report, validation>>
benchVars == <<probeVars, fileVars, toolVars>>
wizardVars == <<DEFAULT_SERVICES, deployment_mode, deployment_config, shared,
                last_scan, deployment_last_discovery, deployment_service_health,
                config_file, override_file, env_file>>
sessionVars == <<DEFAULT_SERVICES, deployment_mode, deployment_config, shared,
                 last_scan, deployment_last_discovery, deployment_service_health>>

-----------------------------------------------------------------------------
(* Optional values and Python truthiness                                   *)

None == <<>>
Some(v) == <<v>>
IsNone(o) == o = <<>>
Val(o) == o[1]

\* bool(x) for an Optional[str]: None and "" are falsy
TruthyStr(o) == ~IsNone(o) /\ Len(Val(o)) > 0
\* bool(x) for an Optional[int]: None and 0 are falsy
TruthyInt(o) == ~IsNone(o) /\ Val(o) # 0

-----------------------------------------------------------------------------
(* Strings                                                                 *)

\* s.startswith(p)
StartsWith(s, p) == Len(s) >= Len(p) /\ SubSeq(s, 1, Len(p)) = p

\* the tokens of s from position i on
From(s, i) == SubSeq(s, i, Len(s))

\* least index >= from whose token is in stops, or Len(s) + 1
RECURSIVE FindFirst(_, _, _)
FindFirst(s, stops, from) ==
    IF from > Len(s) THEN Len(s) + 1
    ELSE IF s[from] \in stops THEN from
    ELSE FindFirst(s, stops, from + 1)

\* greatest index whose token is tok, or 0
RECURSIVE FindLast(_, _, _)
FindLast(s, tok, upto) ==
    IF upto < 1 THEN 0
    ELSE IF s[upto] = tok THEN upto
    ELSE FindLast(s, tok, upto - 1)

Contains(s, tok) == \E i \in 1..Len(s) : s[i] = tok

\* str.lower() on one token (the mixed-case names the model uses)
LowerTok(t) ==
    CASE t = "HA.Lan" -> "ha.lan"
      [] t = "HTTPS" -> "https"
      [] t = "LCARS-" -> "lcars-"
      [] t = "N8N" -> "n8n"
      [] OTHER -> t

Lower(s) == [i \in 1..Len(s) |-> LowerTok(s[i])]

-----------------------------------------------------------------------------
(* deploy_config.ServiceConfig                                             *)

ServiceConfig(name, description, default_host, default_port, health_check_url, required, can_use_existing) ==
    [name |-> name, description |-> description,
     default_host |-> default_host, default_port |-> default_port,
     health_check_url |-> health_check_url,
     required |-> required, can_use_existing |-> can_use_existing,
     detected_host |-> None, detected_port |-> None,
     use_existing |-> FALSE,
     custom_host |-> None, custom_port |-> None]

\* effective_host, had custom_host been honoured only for a reused service
effective_host_custom_only_when_reusing(s) ==
    IF s.use_existing /\ TruthyStr(s.custom_host) THEN Val(s.custom_host)
    ELSE IF s.use_existing /\ TruthyStr(s.detected_host) THEN Val(s.detected_host)
    ELSE s.default_host

\* effective_host, had detection not been tied to use_existing
effective_host_detected_always(s) ==
    IF TruthyStr(s.custom_host) THEN Val(s.custom_host)
    ELSE IF TruthyStr(s.detected_host) THEN Val(s.detected_host)
    ELSE s.default_host

\* ServiceConfig.effective_host
effective_host(s) ==
    IF TruthyStr(s.custom_host) THEN Val(s.custom_host)
    ELSE IF s.use_existing /\ TruthyStr(s.detected_host) THEN Val(s.detected_host)
    ELSE s.default_host

\* effective_port, had the ports been tested with "is not None"
effective_port_zero_is_set(s) ==
    IF ~IsNone(s.custom_port) THEN Val(s.custom_port)
    ELSE IF ~IsNone(s.detected_port) THEN Val(s.detected_port)
    ELSE s.default_port

\* ServiceConfig.effective_port
effective_port(s) ==
    IF TruthyInt(s.custom_port) THEN Val(s.custom_port)
    ELSE IF TruthyInt(s.detected_port) THEN Val(s.detected_port)
    ELSE s.default_port

\* ServiceConfig.connection_string: f"{effective_host}:{effective_port}"
connection_string(s) == effective_host(s) \o <<":", ToString(effective_port(s))>>

-----------------------------------------------------------------------------
(* urllib.parse.urlparse as the prober uses it: scheme, hostname, path,    *)
(* query of a URL; ValueError on an unbalanced IPv6 bracket in the netloc. *)

urlparse(url) ==
    LET hasNetloc == Len(url) >= 2 /\ url[2] = "://"
        scheme    == IF hasNetloc THEN Lower(<<url[1]>>) ELSE <<>>
        start     == IF hasNetloc THEN 3 ELSE 1
        netlocEnd == IF hasNetloc THEN FindFirst(url, {"/", "?", "#"}, start) ELSE start
        netloc    == SubSeq(url, start, netlocEnd - 1)
        rest      == From(url, netlocEnd)
        noFrag    == SubSeq(rest, 1, FindFirst(rest, {"#"}, 1) - 1)
        qAt       == FindFirst(noFrag, {"?"}, 1)
        rawPath   == SubSeq(noFrag, 1, qAt - 1)
        query     == SubSeq(noFrag, qAt + 1, Len(noFrag))
        \* urlparse (unlike urlsplit) cuts ";params" off the last path segment
        lastSlash == FindLast(rawPath, "/", Len(rawPath))
        semi      == FindFirst(rawPath, {";"}, lastSlash + 1)
        path      == SubSeq(rawPath, 1, semi - 1)
        \* ParseResult.hostname
        hostinfo  == From(netloc, FindLast(netloc, "@", Len(netloc)) + 1)
        bracketed == hostinfo # <<>> /\ Head(hostinfo) = "["
        name      == IF bracketed
                     THEN SubSeq(hostinfo, 2, FindFirst(hostinfo, {"]"}, 1) - 1)
                     ELSE SubSeq(hostinfo, 1, FindFirst(hostinfo, {":"}, 1) - 1)
        unbalanced == Contains(netloc, "[") # Contains(netloc, "]")
    IN  [exc      |-> IF unbalanced THEN "ValueError" ELSE "",
         scheme   |-> scheme,
         hostname |-> IF name = <<>> THEN None ELSE Some(Lower(name)),
         path     |-> path,
         query    |-> query]

\* template.format("HOST", "PORT"): each "{}" takes the next positional
\* argument; a third "{}" raises IndexError
RECURSIVE FormatFrom(_, _)
FormatFrom(t, args) ==
    IF t = <<>> THEN <<>>
    ELSE IF Head(t) = "{}"
         THEN <<Head(args)>> \o FormatFrom(Tail(t), Tail(args))
         ELSE <<Head(t)>> \o FormatFrom(Tail(t), args)

Placeholders(t) == Cardinality({i \in 1..Len(t) : t[i] = "{}"})

format(t, args) ==
    IF Placeholders(t) > Len(args)
    THEN [exc |-> "IndexError", value |-> <<>>]
    ELSE [exc |-> "", value |-> FormatFrom(t, args)]

-----------------------------------------------------------------------------
(* The network as one probe sees it                                        *)

\* what a TCP connect to (host, port) meets
TcpOutcomes == {"open", "refused", "unresolved"}

\* what an HTTP GET meets: a final status code, or a failure below HTTP
Status(code) == [kind |-> "status", code |-> code, reason |-> <<>>]
NetFailure(kind, reason) == [kind |-> kind, code |-> 0, reason |-> reason]

\* http.client.responses[code], the reason phrase of an HTTPError
ReasonPhrase(code) ==
    CASE code = 400 -> <<"Bad Request">>
      [] code = 401 -> <<"Unauthorized">>
      [] code = 403 -> <<"Forbidden">>
      [] code = 404 -> <<"Not Found">>
      [] code = 500 -> <<"Internal Server Error">>
      [] code = 503 -> <<"Service Unavailable">>
      [] OTHER -> <<"Error">>

-----------------------------------------------------------------------------
(* deploy_config: the two probes                                           *)

\* check_port_available, had the result of connect_ex been ignored
check_port_available_ignores_result(host, port, tcp) ==
    IF tcp = "unresolved" THEN [exc |-> "", value |-> FALSE]
    ELSE IF port < 0 \/ port > 65535 THEN [exc |-> "OverflowError", value |-> FALSE]
    ELSE [exc |-> "", value |-> TRUE]

\* check_port_available(host, port): socket.connect_ex behind
\* "except socket.error". A name that does not resolve raises gaierror (an
\* OSError, caught); a port outside 0..65535 raises OverflowError (not caught).
check_port_available(host, port, tcp) ==
    IF tcp = "unresolved" THEN [exc |-> "", value |-> FALSE]
    ELSE IF port < 0 \/ port > 65535 THEN [exc |-> "OverflowError", value |-> FALSE]
    ELSE [exc |-> "", value |-> (tcp = "open")]

\* urllib.request.urlopen: a response for a 2xx status, HTTPError (a URLError
\* subclass) for every other status, URLError or another exception otherwise
urlopen(o) ==
    IF o.kind = "status"
    THEN IF 200 <= o.code /\ o.code < 300
         THEN [raised |-> "", status |-> o.code, reason |-> <<>>]
         ELSE [raised |-> "HTTPError", status |-> o.code, reason |-> ReasonPhrase(o.code)]
    ELSE IF o.kind \in {"refused", "timeout"}
         THEN [raised |-> "URLError", status |-> 0, reason |-> o.reason]
         ELSE [raised |-> "Exception", status |-> 0, reason |-> o.reason]

\* deploy_config.check_http_endpoint(url) -> (success, error_message)
check_http_endpoint(url, o) ==
    LET r == urlopen(o)
    IN  CASE r.raised = "" ->
               IF r.status < 500
               THEN [ok |-> TRUE, error |-> None]
               ELSE [ok |-> FALSE, error |-> Some(<<"HTTP ", ToString(r.status)>>)]
          [] r.raised = "HTTPError" ->
               IF r.status \in {401, 403, 404}
               THEN [ok |-> TRUE, error |-> None]
               ELSE [ok |-> FALSE, error |-> Some(<<"HTTP ", ToString(r.status)>>)]
          [] r.raised = "URLError" ->
               [ok |-> FALSE, error |-> Some(<<"Connection failed: ">> \o r.reason)]
          [] OTHER ->
               [ok |-> FALSE, error |-> Some(r.reason)]

\* probe_url, had the scheme been left as the template has it
probe_url_template_scheme(scheme, hostname, port, parsed_template) ==
    LET path0 == IF parsed_template.path # <<>> THEN parsed_template.path ELSE <<"/">>
        path  == IF parsed_template.query # <<>>
                 THEN path0 \o <<"?">> \o parsed_template.query ELSE path0
    IN  parsed_template.scheme \o <<"://">> \o hostname \o <<":", ToString(port)>> \o path

\* the URL check_service_health probes: f"{scheme}://{hostname}:{port}{path}",
\* the path (or "/") and the query being those of the formatted template
probe_url(scheme, hostname, port, parsed_template) ==
    LET path0 == IF parsed_template.path # <<>> THEN parsed_template.path ELSE <<"/">>
        path  == IF parsed_template.query # <<>>
                 THEN path0 \o <<"?">> \o parsed_template.query ELSE path0
    IN  scheme \o <<"://">> \o hostname \o <<":", ToString(port)>> \o path

\* deploy_config.check_service_health(service) -> (is_healthy, error_message).
\* exc names an exception that leaves the function; trace lists the network
\* operations it performed, in order.
check_service_health(service, tcp, o) ==
    LET host      == effective_host(service)
        port      == effective_port(service)
        hasScheme == StartsWith(host, <<"http", "://">>) \/ StartsWith(host, <<"https", "://">>)
        parsed    == urlparse(host)
        scheme    == IF hasScheme /\ parsed.scheme # <<>> THEN parsed.scheme ELSE <<"http">>
        hostname  == IF hasScheme /\ TruthyStr(parsed.hostname)
                     THEN Val(parsed.hostname) ELSE host
        reach     == check_port_available(hostname, port, tcp)
        tcpEvent  == [op |-> "tcp", host |-> hostname, port |-> port, url |-> <<>>]
        template_url    == format(service.health_check_url, <<"HOST", "PORT">>)
        parsed_template == urlparse(template_url.value)
        url       == probe_url(scheme, hostname, port, parsed_template)
        httpEvent == [op |-> "http", host |-> hostname, port |-> port, url |-> url]
        answer    == check_http_endpoint(url, o)
        Raise(e, t) == [exc |-> e, ok |-> FALSE, error |-> None, trace |-> t]
        Return(ok, err, t) == [exc |-> "", ok |-> ok, error |-> err, trace |-> t]
    IN  IF hasScheme /\ parsed.exc # "" THEN Raise(parsed.exc, <<>>)
        ELSE IF reach.exc # "" THEN Raise(reach.exc, <<tcpEvent>>)
        ELSE IF ~reach.value
             THEN Return(FALSE,
                         Some(<<"Port ", ToString(port), " not accessible on ">> \o hostname),
                         <<tcpEvent>>)
        ELSE IF StartsWith(service.health_check_url, <<"tcp", "://">>)
             THEN Return(TRUE, None, <<tcpEvent>>)
        ELSE IF template_url.exc # "" THEN Raise(template_url.exc, <<tcpEvent>>)
        ELSE IF parsed_template.exc # "" THEN Raise(parsed_template.exc, <<tcpEvent>>)
        ELSE Return(answer.ok, answer.error, <<tcpEvent, httpEvent>>)

-----------------------------------------------------------------------------
(* health_check.check_http_endpoint(url) -> (success, response_time_ms,    *)
(* error_message); the elapsed time is a clock reading and is left out.    *)

\* requests.get: a response for every status, ConnectionError, Timeout or
\* another exception otherwise
requests_get(o) ==
    IF o.kind = "status" THEN [raised |-> "", status |-> o.code, reason |-> <<>>]
    ELSE IF o.kind = "refused" THEN [raised |-> "ConnectionError", status |-> 0, reason |-> o.reason]
    ELSE IF o.kind = "timeout" THEN [raised |-> "Timeout", status |-> 0, reason |-> o.reason]
    ELSE [raised |-> "Exception", status |-> 0, reason |-> o.reason]

\* the branch taken when REQUESTS_AVAILABLE
hc_check_http_endpoint_requests(url, o) ==
    LET r == requests_get(o)
    IN  CASE r.raised = "" ->
               IF r.status < 500
               THEN [ok |-> TRUE, error |-> None]
               ELSE [ok |-> FALSE, error |-> Some(<<"HTTP ", ToString(r.status)>>)]
          [] r.raised = "ConnectionError" -> [ok |-> FALSE, error |-> Some(<<"Connection refused">>)]
          [] r.raised = "Timeout" -> [ok |-> FALSE, error |-> Some(<<"Timeout">>)]
          [] OTHER -> [ok |-> FALSE, error |-> Some(r.reason)]

\* the urllib fallback: "except urllib.error.URLError" also catches HTTPError
hc_check_http_endpoint_urllib(url, o) ==
    LET r == urlopen(o)
    IN  CASE r.raised = "" ->
               IF r.status < 500
               THEN [ok |-> TRUE, error |-> None]
               ELSE [ok |-> FALSE, error |-> Some(<<"HTTP ", ToString(r.status)>>)]
          [] r.raised \in {"HTTPError", "URLError"} ->
               [ok |-> FALSE, error |-> Some(r.reason)]
          [] OTHER -> [ok |-> FALSE, error |-> Some(r.reason)]

\* health_check.check_http_endpoint
hc_check_http_endpoint(requests_available, url, o) ==
    IF requests_available THEN hc_check_http_endpoint_requests(url, o)
    ELSE hc_check_http_endpoint_urllib(url, o)

-----------------------------------------------------------------------------
(* Values the probe bench draws from                                       *)

localhost    == <<"localhost">>
HostDb       == <<"db.example.com">>
HostLan      == <<"192.168.1.50">>
HostHttps    == <<"https", "://", "llm.example.com">>
HostHttpPath == <<"http", "://", "HA.Lan", ":", "8443", "/", "base">>
HostBracket  == <<"http", "://", "[">>
HostNoName   == <<"http", "://">>

TplApi      == <<"http", "://", "{}", ":", "{}", "/", "api", "/">>
TplTcp      == <<"tcp", "://", "{}", ":", "{}">>
TplTags     == <<"http", "://", "{}", ":", "{}", "/", "api", "/", "tags">>
TplHealthz  == <<"http", "://", "{}", ":", "{}", "/", "healthz">>
TplModels   == <<"http", "://", "{}", ":", "{}", "/", "v1", "/", "models">>
\* templates outside the catalogue: another scheme and a query, no path,
\* a third placeholder
TplQuery    == <<"https", "://", "{}", ":", "{}", "/", "v1", "/", "models", "?", "limit=1">>
TplNoPath   == <<"http", "://", "{}", ":", "{}">>
TplThree    == <<"http", "://", "{}", ":", "{}", "/", "{}">>

BenchCustomHosts ==
    {None, Some(<<>>), Some(HostDb), Some(HostLan), Some(HostHttps),
     Some(HostHttpPath), Some(HostBracket), Some(HostNoName)}
BenchDetectedHosts == {None, Some(<<>>), Some(localhost), Some(HostLan)}
BenchCustomPorts   == {None, Some(0), Some(8443), Some(70000)}
BenchDetectedPorts == {None, Some(0), Some(9000)}

\* (default_port, health_check_url) of the descriptors on the bench
BenchDescriptors ==
    {<<8123, TplApi>>, <<5432, TplTcp>>, <<11434, TplQuery>>,
     <<5678, TplNoPath>>, <<3000, TplThree>>}

BenchHttpOutcomes ==
    {Status(200), Status(400), Status(404), Status(500),
     NetFailure("refused", <<"Connection refused">>),
     NetFailure("timeout", <<"timed out">>),
     NetFailure("exception", <<"bad status line">>)}

\* the final statuses a server answers a GET with: success, client error,
\* server error
StatusCodes == (200..206) \cup (400..431) \cup (500..511)

HttpOutcomes ==
    {Status(c) : c \in StatusCodes}
      \cup {NetFailure("refused", <<"Connection refused">>),
            NetFailure("timeout", <<"timed out">>),
            NetFailure("exception", <<"bad status line">>)}

\* the three HTTP classifiers of the repository
HttpImpls == {"deploy_config", "health_check+requests", "health_check+urllib"}

IdleHealth == [called |-> FALSE, tcp |-> "refused", o |-> Status(200),
               result |-> [exc |-> "", ok |-> FALSE, error |-> None, trace |-> <<>>]]
IdleHttp   == [called |-> FALSE, impl |-> "deploy_config", o |-> Status(200),
               result |-> [ok |-> FALSE, error |-> None]]
BenchService ==
    ServiceConfig("Bench", "service under test", localhost, 8123, TplApi, TRUE, TRUE)

-----------------------------------------------------------------------------
(* deploy_config.DEFAULT_SERVICES                                          *)

\* the keys of the catalogue in declaration order
ServiceKeys ==
    <<"homeassistant", "postgres", "redis", "ollama", "n8n", "open-webui",
      "whisper", "piper", "openwakeword">>

Keys == {ServiceKeys[i] : i \in 1..Len(ServiceKeys)}

CatalogueDefaults ==
    [k \in Keys |->
        CASE k = "homeassistant" ->
               ServiceConfig("Home Assistant", "State machine for device control",
                             localhost, 8123, TplApi, TRUE, TRUE)
          [] k = "postgres" ->
               ServiceConfig("PostgreSQL", "Database for n8n workflows",
                             localhost, 5432, TplTcp, TRUE, TRUE)
          [] k = "redis" ->
               ServiceConfig("Redis", "Task queue and caching",
                             localhost, 6379, TplTcp, FALSE, TRUE)
          [] k = "ollama" ->
               ServiceConfig("Ollama", "Local LLM inference server",
                             localhost, 11434, TplTags, TRUE, TRUE)
          [] k = "n8n" ->
               ServiceConfig("n8n", "Workflow orchestration",
                             localhost, 5678, TplHealthz, TRUE, FALSE)
          [] k = "open-webui" ->
               ServiceConfig("Open WebUI", "LLM chat interface",
                             localhost, 3000, TplModels, TRUE, TRUE)
          [] k = "whisper" ->
               ServiceConfig("Whisper STT", "Speech-to-text service",
                             localhost, 10300, TplTcp, FALSE, TRUE)
          [] k = "piper" ->
               ServiceConfig("Piper TTS", "Text-to-speech service",
                             localhost, 10200, TplTcp, FALSE, TRUE)
          [] OTHER ->
               ServiceConfig("openWakeWord", "Wake word detection",
                             localhost, 10400, TplTcp, FALSE, TRUE)]

-----------------------------------------------------------------------------
(* deploy_config.detect_existing_services                                  *)

\* what one scan meets: per service key, the TCP outcome on its default
\* endpoint and the answer to an HTTP GET there
ScanKeys == {"homeassistant", "postgres"}
Networks ==
    {[k \in Keys |-> [tcp |-> IF k \in open THEN "open" ELSE "refused", o |-> o]] :
        open \in SUBSET ScanKeys, o \in {Status(200), Status(500)}}

\* what the probes of one save meet, at whatever endpoints the services have
SaveNetworks ==
    {[k \in Keys |-> [tcp |-> t, o |-> o]] :
        t \in {"open", "refused"}, o \in {Status(200), Status(500)}}

\* detect_one, had entries with can_use_existing = false been scanned too
detect_one_scans_everything(service_template, n) ==
    LET service == service_template
        found   == check_port_available(service.default_host,
                                        service.default_port, n.tcp).value
        seen    == IF found
                   THEN [service EXCEPT !.detected_host = Some(service.default_host),
                                        !.detected_port = Some(service.default_port)]
                   ELSE service
        connect == [op |-> "tcp", host |-> service.default_host,
                    port |-> service.default_port, url |-> <<>>]
    IN  IF ~found THEN [service |-> seen, probes |-> <<connect>>]
        ELSE CHOOSE turn \in
                 {[service |-> IF health_result.ok
                               THEN [seen EXCEPT !.use_existing = FALSE] ELSE seen,
                   probes  |-> <<connect>> \o health_result.trace] :
                      health_result \in {check_service_health(seen, n.tcp, n.o)}} : TRUE

\* one turn of the loop over the catalogue: the entry built for the key, and
\* the network operations performed for it, in order
detect_one(service_template, n) ==
    IF ~service_template.can_use_existing
    THEN [service |-> service_template, probes |-> <<>>]
    ELSE LET service == service_template
             found   == check_port_available(service.default_host,
                                             service.default_port, n.tcp).value
             seen    == IF found
                        THEN [service EXCEPT !.detected_host = Some(service.default_host),
                                             !.detected_port = Some(service.default_port)]
                        ELSE service
             connect == [op |-> "tcp", host |-> service.default_host,
                         port |-> service.default_port, url |-> <<>>]
         IN  IF ~found THEN [service |-> seen, probes |-> <<connect>>]
             ELSE CHOOSE turn \in
                      {[service |-> IF health_result.ok
                                    THEN [seen EXCEPT !.use_existing = FALSE] ELSE seen,
                        probes  |-> <<connect>> \o health_result.trace] :
                           health_result \in {check_service_health(seen, n.tcp, n.o)}} : TRUE

\* detect_existing_services(): what the loop did for every key, and the keys
\* whose returned value is the catalogue's own object (no copy is made where
\* can_use_existing is false)
detect_existing_services(catalogue, net) ==
    [scanned |-> [k \in Keys |-> detect_one(catalogue[k], net[k])],
     aliased |-> {k \in Keys : ~catalogue[k].can_use_existing}]

\* the dict detect_existing_services returns
scan_result(d) == [k \in Keys |-> d.scanned[k].service]

\* the network operations of one detect_existing_services call, per key
scan_probes(d) == [k \in Keys |-> d.scanned[k].probes]

-----------------------------------------------------------------------------
(* deploy_config.check_docker_containers                                   *)

\* dict.get(key, default) on a JSON object, a record of the members present
get(object, key, default) == IF key \in DOMAIN object THEN object[key] ELSE default

\* the entry kept for a container
container_info(container) ==
    [id     |-> get(container, "ID", None),
     status |-> get(container, "Status", None),
     state  |-> get(container, "State", None),
     image  |-> get(container, "Image", None),
     ports  |-> get(container, "Ports", Some(<<>>))]

\* any(svc in name.lower() for svc in DEFAULT_SERVICES.keys())
is_lcars_container(name) == \E k \in Keys : Contains(Lower(name), k)

\* the loop over the lines of stdout, from line i on. A line is blank, text
\* that json.loads rejects, a JSON value that is no object, or a JSON object.
RECURSIVE containers_from(_, _, _)
containers_from(lines, i, containers) ==
    IF i > Len(lines) THEN [exc |-> "", value |-> containers]
    ELSE LET line == lines[i]
             name == get(line.value, "Names", Some(<<>>))
         IN  CASE line.json = "blank" -> containers_from(lines, i + 1, containers)
               [] line.json = "invalid" -> containers_from(lines, i + 1, containers)
               [] line.json # "object" -> [exc |-> "AttributeError", value |-> <<>>]
               [] IsNone(name) -> [exc |-> "AttributeError", value |-> <<>>]
               [] is_lcars_container(Val(name)) ->
                    containers_from(lines, i + 1,
                        [n \in DOMAIN containers \cup {Val(name)} |->
                            IF n = Val(name) THEN container_info(line.value)
                            ELSE containers[n]])
               [] OTHER -> containers_from(lines, i + 1, containers)

\* check_docker_containers() -> {name: info}: subprocess.run(["docker", "ps",
\* "-a", ...]) behind "except (subprocess.TimeoutExpired, FileNotFoundError)".
\* The empty dict is <<>>.
check_docker_containers(run) ==
    CASE run.raised \in {"TimeoutExpired", "FileNotFoundError"} -> [exc |-> "", value |-> <<>>]
      [] run.raised # "" -> [exc |-> run.raised, value |-> <<>>]
      [] run.returncode # 0 -> [exc |-> "", value |-> <<>>]
      [] OTHER -> containers_from(run.stdout, 1, <<>>)

\* what running the CLI can come to
CliRaised(e)   == [raised |-> e, returncode |-> 0, stdout |-> <<>>]
CliExit(rc, out) == [raised |-> "", returncode |-> rc, stdout |-> out]

BlankLine   == [json |-> "blank", value |-> <<>>]
InvalidLine == [json |-> "invalid", value |-> <<>>]
ArrayLine   == [json |-> "array", value |-> <<>>]
ObjectLine(container) == [json |-> "object", value |-> container]

NamePostgres == <<"lcars-", "postgres", "-1">>
NameN8n      == <<"LCARS-", "N8N">>
NameNginx    == <<"nginx">>

BenchLines ==
    {BlankLine, InvalidLine, ArrayLine,
     ObjectLine([Names |-> Some(NamePostgres), ID |-> Some(<<"a1">>),
                 Status |-> Some(<<"Up 2 hours">>), State |-> Some(<<"running">>),
                 Image |-> Some(<<"postgres:15">>), Ports |-> Some(<<"5432/tcp">>)]),
     ObjectLine([Names |-> Some(NamePostgres), ID |-> Some(<<"b2">>)]),
     ObjectLine([Names |-> Some(NameN8n), ID |-> Some(<<"c3">>)]),
     ObjectLine([Names |-> Some(NameNginx), ID |-> Some(<<"d4">>)]),
     ObjectLine([ID |-> Some(<<"e5">>)]),
     ObjectLine([Names |-> None, ID |-> Some(<<"f6">>)])}

MaxLines == 2

BenchStdouts == UNION {[1..n -> BenchLines] : n \in 0..MaxLines}

CliExceptions == {"FileNotFoundError", "TimeoutExpired", "PermissionError",
                  "UnicodeDecodeError"}

DockerRuns ==
    {CliRaised(e) : e \in CliExceptions}
        \cup {CliExit(rc, out) : rc \in {0, 1}, out \in BenchStdouts}

IdleDocker == [called |-> FALSE, run |-> CliRaised("FileNotFoundError"),
               result |-> [exc |-> "", value |-> <<>>]]

-----------------------------------------------------------------------------
(* deploy_config.generate_docker_compose_override(services) -> str. The    *)
(* registry is a dict, given as the sequence of its items; the text is the *)
(* sequence of its lines.                                                  *)

RECURSIVE Concat(_)
Concat(blocks) == IF blocks = <<>> THEN <<>> ELSE Head(blocks) \o Concat(Tail(blocks))

In(x, list) == \E i \in 1..Len(list) : list[i] = x

\* services[key]
lookup(services, key) == services[CHOOSE i \in 1..Len(services) : services[i].key = key].value

\* is_disabled, had can_use_existing not been looked at
is_disabled_whenever_reused(item) == item.value.use_existing

\* the first branch of the loop: the service is left out of the deployment
is_disabled(item) == item.value.use_existing /\ item.value.can_use_existing

\* is_remapped, had a disabled service been given its port entry too
is_remapped_even_if_disabled(item) ==
    effective_port(item.value) # item.value.default_port

\* the second branch of the loop: the service gets a port entry
is_remapped(item) ==
    ~is_disabled(item) /\ effective_port(item.value) # item.value.default_port

disabled_services(services) ==
    LET kept == SelectSeq(services, is_disabled)
    IN  [i \in 1..Len(kept) |-> kept[i].key]

port_overrides(services) ==
    LET kept == SelectSeq(services, is_remapped)
    IN  [i \in 1..Len(kept) |->
            [service       |-> kept[i].key,
             internal_port |-> kept[i].value.default_port,
             external_port |-> effective_port(kept[i].value)]]

profile_block(service_key) ==
    << <<"  ", service_key, ":">>, <<"    profiles:">>, <<"      - disabled">> >>

ports_block(o) ==
    << <<"  ", o.service, ":">>, <<"    ports:">>,
       <<"      - \"", ToString(o.external_port), ":", ToString(o.internal_port), "\"">> >>

\* n8n_dependencies, had the list been left out when it is empty
n8n_block_omits_empty(disabled) ==
    LET n8n_dependencies ==
            (IF ~In("postgres", disabled) THEN <<"postgres">> ELSE <<>>)
                \o (IF ~In("redis", disabled) THEN <<"redis">> ELSE <<>>)
    IN  IF In("postgres", disabled) \/ In("redis", disabled)
        THEN << <<"  ", "n8n", ":">> >>
                 \o (IF n8n_dependencies # <<>>
                     THEN << <<"    depends_on:">> >>
                              \o [i \in 1..Len(n8n_dependencies) |->
                                     <<"      - ", n8n_dependencies[i]>>]
                     ELSE <<>>)
        ELSE <<>>

\* the depends_on rewrite of n8n
n8n_block(disabled) ==
    LET n8n_dependencies ==
            (IF ~In("postgres", disabled) THEN <<"postgres">> ELSE <<>>)
                \o (IF ~In("redis", disabled) THEN <<"redis">> ELSE <<>>)
    IN  IF In("postgres", disabled) \/ In("redis", disabled)
        THEN << <<"  ", "n8n", ":">> >>
                 \o (IF n8n_dependencies # <<>>
                     THEN << <<"    depends_on:">> >>
                              \o [i \in 1..Len(n8n_dependencies) |->
                                     <<"      - ", n8n_dependencies[i]>>]
                     ELSE << <<"    depends_on: []">> >>)
        ELSE <<>>

comment_block(services, disabled) ==
    IF disabled # <<>>
    THEN << <<>>, <<"# Disabled services (using existing infrastructure):">> >>
             \o [i \in 1..Len(disabled) |->
                    <<"# ", disabled[i], ": Using existing at ">>
                        \o connection_string(lookup(services, disabled[i]))]
    ELSE <<>>

generate_docker_compose_override(services) ==
    LET disabled == disabled_services(services)
        remapped == port_overrides(services)
    IN  << <<"# LCARS Computer - Deployment Configuration Override">>,
           <<"# Auto-generated - do not edit manually">>,
           <<>>,
           <<"services:">> >>
          \o Concat([i \in 1..Len(disabled) |-> profile_block(disabled[i])])
          \o n8n_block(disabled)
          \o Concat([i \in 1..Len(remapped) |-> ports_block(remapped[i])])
          \o comment_block(services, disabled)

-----------------------------------------------------------------------------
(* deploy_config.save_deployment_config                                    *)

\* dict.items() of a registry built from the catalogue: the keys in the
\* catalogue's order
items(services) ==
    [i \in 1..Len(ServiceKeys) |-> [key |-> ServiceKeys[i], value |-> services[ServiceKeys[i]]]]

\* JSON values, and Python's view of them after json.load: null/None, a
\* string, a number, true/false, an array/list, an object/dict as the
\* sequence of its members
JNull        == [json |-> "null"]
JString(v)   == [json |-> "string", v |-> v]
JNumber(v)   == [json |-> "number", v |-> v]
JBool(v)     == [json |-> "bool", v |-> v]
JArray(v)    == [json |-> "array", v |-> v]
JObject(v)   == [json |-> "object", v |-> v]
Member(name, value) == [name |-> name, value |-> value]

\* what a file holds: text that json.load parses to a value, or other text
JsonText(value) == [text |-> "json", value |-> value]
InvalidText     == [text |-> "invalid"]

\* the fields of the ServiceConfig dataclass, in declaration order, and how
\* each is typed
FieldNames ==
    <<"name", "description", "default_host", "default_port", "health_check_url",
      "required", "can_use_existing", "detected_host", "detected_port",
      "use_existing", "custom_host", "custom_port">>
StrFields    == {"name", "description", "default_host", "health_check_url"}
IntFields    == {"default_port"}
BoolFields   == {"required", "can_use_existing", "use_existing"}
OptStrFields == {"detected_host", "custom_host"}
OptIntFields == {"detected_port", "custom_port"}

\* the fields __init__ has a default for, and the defaults
DefaultedFields ==
    {"detected_host", "detected_port", "use_existing", "custom_host", "custom_port"}
field_default(field) == IF field = "use_existing" THEN FALSE ELSE None

\* to_json, had an empty string or a zero been written as null
to_json_null_for_falsy(field, value) ==
    CASE field \in StrFields  -> JString(value)
      [] field \in IntFields  -> JNumber(value)
      [] field \in BoolFields -> JBool(value)
      [] field \in OptStrFields ->
           IF ~TruthyStr(value) THEN JNull ELSE JString(Val(value))
      [] OTHER ->
           IF ~TruthyInt(value) THEN JNull ELSE JNumber(Val(value))

\* json.dump of one field value: None -> null, str -> string, int ->
\* number, bool -> true/false
to_json(field, value) ==
    CASE field \in StrFields  -> JString(value)
      [] field \in IntFields  -> JNumber(value)
      [] field \in BoolFields -> JBool(value)
      [] field \in OptStrFields ->
           IF IsNone(value) THEN JNull ELSE JString(Val(value))
      [] OTHER ->
           IF IsNone(value) THEN JNull ELSE JNumber(Val(value))

\* the Python value json.load gives, as the field holds it: an Optional
\* field holds None or the value, another field the value
from_json(field, j) ==
    IF field \in OptStrFields \cup OptIntFields
    THEN IF j.json = "null" THEN None ELSE Some(j.v)
    ELSE IF j.json = "null" THEN None ELSE j.v

\* dataclasses.asdict: a dict with the dataclass' fields, in field order
asdict(service) ==
    [i \in 1..Len(FieldNames) |-> Member(FieldNames[i], service[FieldNames[i]])]

\* json.dump of an asdict
dump_service(fields) ==
    JObject([i \in 1..Len(fields) |->
                Member(fields[i].name, to_json(fields[i].name, fields[i].value))])

\* save_deployment_config(services, output_path): the file written,
\* {"version": "1.0", "services": {key: asdict(service)}} with the services
\* in the registry's order
save_deployment_config(services) ==
    JsonText(JObject(<<
        Member("version", JString(<<"1.0">>)),
        Member("services",
               JObject([i \in 1..Len(services) |->
                           Member(services[i].key,
                                  dump_service(asdict(services[i].value)))]))>>))

-----------------------------------------------------------------------------
(* deploy_config.load_deployment_config                                    *)

HasMember(object, name) == \E i \in 1..Len(object.v) : object.v[i].name = name

\* object[name]
member(object, name) ==
    object.v[CHOOSE i \in 1..Len(object.v) : object.v[i].name = name].value

\* ServiceConfig(**service_data): TypeError for something that is no
\* mapping, for an unexpected keyword and for a missing argument that has no
\* default; no check of the values' types
new_ServiceConfig(service_data) ==
    IF service_data.json # "object" THEN [exc |-> "TypeError", value |-> <<>>]
    ELSE IF \E i \in 1..Len(service_data.v) :
                ~In(service_data.v[i].name, FieldNames)
         THEN [exc |-> "TypeError", value |-> <<>>]
    ELSE IF \E i \in 1..Len(FieldNames) :
                /\ FieldNames[i] \notin DefaultedFields
                /\ ~HasMember(service_data, FieldNames[i])
         THEN [exc |-> "TypeError", value |-> <<>>]
    ELSE [exc   |-> "",
          value |-> [field \in {FieldNames[i] : i \in 1..Len(FieldNames)} |->
                        IF HasMember(service_data, field)
                        THEN from_json(field, member(service_data, field))
                        ELSE field_default(field)]]

\* load_deployment_config(config_path) -> Optional[dict]: None when the file
\* does not exist, and "except Exception: return None" around the rest;
\* data.get('services', {}) reads a missing services entry as no services
load_deployment_config(file) ==
    IF IsNone(file) THEN [exc |-> "", value |-> None]
    ELSE IF Val(file).text # "json" THEN [exc |-> "", value |-> None]
    ELSE LET data == Val(file).value
         IN  IF data.json # "object" THEN [exc |-> "", value |-> None]
             ELSE LET services == IF HasMember(data, "services")
                                  THEN member(data, "services") ELSE JObject(<<>>)
                  IN  IF services.json # "object" THEN [exc |-> "", value |-> None]
                      ELSE IF \E i \in 1..Len(services.v) :
                                  new_ServiceConfig(services.v[i].value).exc # ""
                           THEN [exc |-> "", value |-> None]
                      ELSE [exc   |-> "",
                            value |-> Some([i \in 1..Len(services.v) |->
                                [key   |-> services.v[i].name,
                                 value |-> new_ServiceConfig(services.v[i].value).value]])]

\* lcars_guide._load_service_configs: the session's registry if it has one,
\* else the saved one if load_deployment_config gives one, else a copy of the
\* catalogue; an empty dict counts as none
load_service_configs(session, file, catalogue) ==
    IF ~IsNone(session) THEN items(Val(session))
    ELSE LET stored == load_deployment_config(file).value
         IN  IF ~IsNone(stored) /\ Val(stored) # <<>> THEN Val(stored)
             ELSE items(catalogue)

\* the last load_deployment_config call, before any; file_is tells how the
\* file came to be: "missing", "saved" or the edit made to a saved file
IdleLoad == [called |-> FALSE, file_is |-> "missing",
             result |-> [exc |-> "", value |-> None], configs |-> <<>>]

-----------------------------------------------------------------------------
(* lcars_guide.upsert_env_var(env_path, key, value). The text of a file is *)
(* a str: tokens of a line, and line terminators between them.             *)

\* Path.read_text(encoding="utf-8"): UnicodeDecodeError on a byte sequence
\* that is no UTF-8 (the token "0xFF"), and universal newlines otherwise:
\* "\r\n" and "\r" are read as "\n"
read_text(text) ==
    IF Contains(text, "0xFF") THEN [exc |-> "UnicodeDecodeError", value |-> <<>>]
    ELSE [exc   |-> "",
          value |-> [i \in 1..Len(text) |->
                        IF text[i] \in {"\r\n", "\r"} THEN "\n" ELSE text[i]]]

\* the pieces of a text between the boundaries; no empty piece after a
\* final boundary
RECURSIVE split_at(_, _)
split_at(content, boundaries) ==
    IF content = <<>> THEN <<>>
    ELSE LET i == FindFirst(content, boundaries, 1)
         IN  <<SubSeq(content, 1, i - 1)>> \o split_at(From(content, i + 1), boundaries)

\* str.splitlines(): a line ends at "\n", and at a form feed as at every
\* other boundary of the Unicode line-boundary table
LineBoundaries == {"\n", "\r\n", "\r", "\f"}
splitlines(content) == split_at(content, LineBoundaries)

\* line.strip() == ""
Whitespace == {" ", "\t"}
is_blank(line) == \A i \in 1..Len(line) : line[i] \in Whitespace

\* "\n".join(new_lines) + "\n"
join_lines(new_lines) ==
    IF new_lines = <<>> THEN <<"\n">>
    ELSE Concat([i \in 1..Len(new_lines) |-> new_lines[i] \o <<"\n">>])

\* upsert_env_var(env_path, key, value): the file it leaves, or the
\* exception it raises
upsert_env_var(file, key, value) ==
    LET content == IF IsNone(file) THEN [exc |-> "", value |-> <<>>]
                   ELSE read_text(Val(file))
        lines == splitlines(content.value)
        key_prefix == key \o <<"=">>
        new_lines == [i \in 1..Len(lines) |->
                         IF StartsWith(lines[i], key_prefix)
                         THEN key_prefix \o value ELSE lines[i]]
        replaced == \E i \in 1..Len(lines) : StartsWith(lines[i], key_prefix)
    IN  IF content.exc # "" THEN [exc |-> content.exc, file |-> file]
        ELSE [exc  |-> "",
              file |-> Some(join_lines(
                          IF replaced THEN new_lines
                          ELSE IF new_lines # <<>> /\ ~is_blank(new_lines[Len(new_lines)])
                               THEN new_lines \o <<<<>>, key_prefix \o value>>
                               ELSE Append(new_lines, key_prefix \o value)))]

-----------------------------------------------------------------------------
(* lcars_guide: the deployment page. Streamlit reruns the page script on   *)
(* every click; each action below is one rerun, from the clicked widget's  *)
(* handler to the end of the script.                                       *)

\* what "docker ps" comes to during a scan: in a configuration session the
\* CLI is not installed; a discovery session meets the other outcomes too
SessionDockerRuns == {CliRaised("FileNotFoundError")}
ScanDockerRuns ==
    {CliRaised("FileNotFoundError"), CliRaised("PermissionError"),
     CliExit(0, <<ObjectLine([Names |-> Some(NamePostgres), ID |-> Some(<<"a1">>)])>>)}

\* what the user may do in one session
ToggleKeys == {"postgres", "n8n"}
EditKeys   == {"postgres"}
TestKeys   == {"postgres", "homeassistant"}
EditHosts  == {HostHttps}
EditPorts  == {15432}

Presets == {"Full Custom", "Minimal Install", "Reuse Database Only",
            "Reuse LLM Server", "Reuse All Infrastructure"}

\* the fields of the connection form the user changed before submitting it
NoEdit == [key |-> "", host |-> None, port |-> None]
Edits  == {NoEdit} \cup
          {[key |-> k, host |-> Some(h), port |-> Some(p)] :
              k \in EditKeys, h \in EditHosts, p \in EditPorts}

\* Python's "a or b or c" on hosts and on ports
OrHost(a, b, c) == IF TruthyStr(a) THEN Val(a) ELSE IF TruthyStr(b) THEN Val(b) ELSE c
OrPort(a, b, c) == IF TruthyInt(a) THEN Val(a) ELSE IF TruthyInt(b) THEN Val(b) ELSE c

\* value= of the host text_input
host_prefill(service) ==
    IF service.can_use_existing
    THEN OrHost(service.custom_host, service.detected_host, service.default_host)
    ELSE OrHost(service.custom_host, None, service.default_host)

\* value= of the port number_input
port_prefill(service) ==
    IF service.can_use_existing /\ service.use_existing
    THEN OrPort(service.custom_port, service.detected_port, service.default_port)
    ELSE OrPort(service.custom_port, None, service.default_port)

\* the connection form: every service's custom_host and custom_port are
\* assigned from its two fields, which hold the prefill unless the user
\* typed something else
form_fields(service, key, edit) ==
    [service EXCEPT
        !.custom_host = Some(IF edit.key = key /\ ~IsNone(edit.host)
                             THEN Val(edit.host) ELSE host_prefill(service)),
        !.custom_port = Some(IF edit.key = key /\ ~IsNone(edit.port)
                             THEN Val(edit.port) ELSE port_prefill(service))]

render_form(services, edit) == [k \in Keys |-> form_fields(services[k], k, edit)]

\* apply_preset, had "Reuse All Infrastructure" not looked at can_use_existing
apply_preset_reuse_everything(services, preset) ==
    [k \in Keys |->
        CASE preset = "Minimal Install" -> [services[k] EXCEPT !.use_existing = FALSE]
          [] preset = "Reuse Database Only" ->
               [services[k] EXCEPT !.use_existing = (k = "postgres")]
          [] preset = "Reuse LLM Server" ->
               [services[k] EXCEPT !.use_existing = (k = "ollama")]
          [] preset = "Reuse All Infrastructure" ->
               [services[k] EXCEPT !.use_existing = TRUE]
          [] OTHER -> services[k]]

\* "Apply Preset"
apply_preset(services, preset) ==
    [k \in Keys |->
        CASE preset = "Minimal Install" -> [services[k] EXCEPT !.use_existing = FALSE]
          [] preset = "Reuse Database Only" ->
               [services[k] EXCEPT !.use_existing = (k = "postgres")]
          [] preset = "Reuse LLM Server" ->
               [services[k] EXCEPT !.use_existing = (k = "ollama")]
          [] preset = "Reuse All Infrastructure" ->
               IF services[k].can_use_existing
               THEN [services[k] EXCEPT !.use_existing = TRUE] ELSE services[k]
          [] OTHER -> services[k]]

\* a "Connect to existing" checkbox, drawn only where can_use_existing
checkbox(services, key, value) ==
    [k \in Keys |->
        IF k = key /\ services[k].can_use_existing
        THEN [services[k] EXCEPT !.use_existing = value] ELSE services[k]]

\* merge_detected, had the scanned entries replaced the session's
merge_detected_whole_entry(services, detected) ==
    [k \in Keys |-> detected[k]]

\* the merge of a scan into the session registry
merge_detected(services, detected) ==
    [k \in Keys |-> [services[k] EXCEPT !.detected_host = detected[k].detected_host,
                                        !.detected_port = detected[k].detected_port]]

\* the summary of a scan cached in the session (its timestamp, a clock
\* reading, is left out)
last_discovery(detected_services, containers) ==
    [detected_services |->
        [k \in {key \in Keys : TruthyInt(detected_services[key].detected_port)} |->
            [name              |-> detected_services[k].name,
             detected_host     |-> detected_services[k].detected_host,
             detected_port     |-> detected_services[k].detected_port,
             connection_string |-> connection_string(detected_services[k])]],
     containers |-> containers]

\* the keys force_<key> the form puts into st.session_state: a widget key
\* is there once its "Use this service anyway" checkbox is drawn, ticked or
\* not, and the checkbox is drawn under the last failed Test Connection of
\* a reused service
force_keys(services, service_health) ==
    {k \in Keys : /\ services[k].can_use_existing
                  /\ services[k].use_existing
                  /\ service_health[k] = "failed"}

\* the save handler's validation: the names of the failing services
save_errors(services, net, session_state) ==
    {k \in Keys : /\ services[k].required
                  /\ services[k].use_existing
                  /\ ~check_service_health(services[k], net[k].tcp, net[k].o).ok
                  /\ k \notin session_state}

\* the endpoint values the save handler puts into docker/.env for a reused
\* service: f"http://{effective_host}:{effective_port}" (HA_URL,
\* OLLAMA_BASE_URL), effective_host (DB_POSTGRESDB_HOST) and
\* str(effective_port) (DB_POSTGRESDB_PORT)
env_base_url(service) ==
    <<"http", "://">> \o effective_host(service)
        \o <<":", ToString(effective_port(service))>>
env_db_host(service) == effective_host(service)
env_db_port(service) == <<ToString(effective_port(service))>>

\* the values the save handler writes for a service deployed in the stack
InStackOllama  == <<"http", "://", "ollama", ":", "11434">>
InStackDbHost  == <<"postgres">>
InStackDbPort  == <<"5432">>

\* the save handler's updates of docker/.env, in its order; HA_URL is
\* touched only when Home Assistant is reused
save_env(file, services) ==
    LET ha == IF services["homeassistant"].use_existing
              THEN upsert_env_var(file, <<"HA_URL">>,
                                  env_base_url(services["homeassistant"])).file
              ELSE file
        ollama == upsert_env_var(ha, <<"OLLAMA_BASE_URL">>,
                                 IF services["ollama"].use_existing
                                 THEN env_base_url(services["ollama"])
                                 ELSE InStackOllama).file
        db_host == upsert_env_var(ollama, <<"DB_POSTGRESDB_HOST">>,
                                  IF services["postgres"].use_existing
                                  THEN env_db_host(services["postgres"])
                                  ELSE InStackDbHost).file
    IN  upsert_env_var(db_host, <<"DB_POSTGRESDB_PORT">>,
                       IF services["postgres"].use_existing
                       THEN env_db_port(services["postgres"])
                       ELSE InStackDbPort).file

\* a write to the session registry reaches the catalogue through every
\* shared object
WriteSession(services, sh) ==
    \E written \in {services} :
        /\ deployment_config' = Some(written)
        /\ shared' = sh
        /\ DEFAULT_SERVICES' = [k \in Keys |-> IF k \in sh THEN written[k]
                                               ELSE DEFAULT_SERVICES[k]]

SelectStandard ==
    /\ deployment_mode = "none"
    /\ deployment_mode' = "standard"
    /\ deployment_config' = Some(DEFAULT_SERVICES)
    /\ shared' = {}
    /\ UNCHANGED <<DEFAULT_SERVICES, last_scan, deployment_last_discovery, config_file,
                   override_file, env_file,
                   deployment_service_health, benchVars>>

SelectCustom ==
    /\ deployment_mode = "none"
    /\ deployment_mode' = "custom"
    /\ deployment_config' = Some(render_form(DEFAULT_SERVICES, NoEdit))
    /\ shared' = {}
    /\ UNCHANGED <<DEFAULT_SERVICES, last_scan, deployment_last_discovery, config_file,
                   override_file, env_file,
                   deployment_service_health, benchVars>>

ChangeMode ==
    /\ deployment_mode # "none"
    /\ deployment_mode' = "none"
    /\ deployment_config' = None
    /\ shared' = {}
    /\ UNCHANGED <<DEFAULT_SERVICES, last_scan, deployment_last_discovery, config_file,
                   override_file, env_file,
                   deployment_service_health, benchVars>>

AutoDetect(net, run) ==
    /\ deployment_mode = "custom"
    /\ \E d \in {detect_existing_services(DEFAULT_SERVICES, net)},
          containers \in {check_docker_containers(run)} :
        \E detected \in {scan_result(d)} :
            /\ last_scan' = [called |-> TRUE, net |-> net, result |-> detected,
                             probes |-> scan_probes(d), containers |-> containers]
            /\ \E merged \in {IF ~IsNone(deployment_config)
                                THEN merge_detected(Val(deployment_config), detected)
                                ELSE detected} :
                 \E services \in {IF containers.exc = ""
                                    THEN render_form(merged, NoEdit) ELSE merged} :
                     WriteSession(services,
                                  IF ~IsNone(deployment_config) THEN shared ELSE d.aliased)
            /\ \E summary \in {IF containers.exc = ""
                                 THEN Some(last_discovery(detected, containers.value))
                                 ELSE deployment_last_discovery} :
                 deployment_last_discovery' = summary
    /\ UNCHANGED <<deployment_mode, config_file, override_file, env_file,
                   deployment_service_health, benchVars>>

ApplyPreset(preset) ==
    /\ deployment_mode = "custom"
    /\ ~IsNone(deployment_config)
    /\ \E chosen \in {apply_preset(Val(deployment_config), preset)} :
        WriteSession(render_form(chosen, NoEdit), shared)
    /\ UNCHANGED <<deployment_mode, last_scan, deployment_last_discovery, config_file,
                   override_file, env_file,
                   deployment_service_health, benchVars>>

ToggleUseExisting(key) ==
    /\ deployment_mode = "custom"
    /\ ~IsNone(deployment_config)
    /\ \E ticked \in {checkbox(Val(deployment_config), key,
                              ~Val(deployment_config)[key].use_existing)} :
        WriteSession(render_form(ticked, NoEdit), shared)
    /\ UNCHANGED <<deployment_mode, last_scan, deployment_last_discovery, config_file,
                   override_file, env_file,
                   deployment_service_health, benchVars>>

\* "Test Connection" of a reused service: the form is submitted, the
\* service is probed with the fields just read, the result is kept
TestConnection(key, edit, net) ==
    /\ deployment_mode = "custom"
    /\ ~IsNone(deployment_config)
    /\ Val(deployment_config)[key].can_use_existing
    /\ Val(deployment_config)[key].use_existing
    /\ \E services \in {render_form(Val(deployment_config), edit)} :
        /\ WriteSession(services, shared)
        /\ \E is_healthy \in {check_service_health(services[key], net[key].tcp,
                                                   net[key].o).ok} :
             deployment_service_health' =
                 [deployment_service_health EXCEPT
                     ![key] = IF is_healthy THEN "ok" ELSE "failed"]
    /\ UNCHANGED <<deployment_mode, last_scan, deployment_last_discovery, config_file,
                   override_file, env_file, benchVars>>

\* "Save Configuration & Continue": ticked are the "Use this service
\* anyway" checkboxes the user ticked among those drawn
SaveConfiguration(edit, net, ticked) ==
    /\ deployment_mode = "custom"
    /\ ~IsNone(deployment_config)
    /\ \E services \in {render_form(Val(deployment_config), edit)} :
        /\ ticked \subseteq force_keys(services, deployment_service_health)
        /\ WriteSession(services, shared)
        /\ \E errors \in {save_errors(services, net,
                                       force_keys(services, deployment_service_health))} :
             IF errors = {}
             THEN /\ config_file' = Some(save_deployment_config(items(services)))
                  /\ override_file' =
                         Some(generate_docker_compose_override(items(services)))
                  /\ env_file' = save_env(env_file, services)
             ELSE UNCHANGED <<config_file, override_file, env_file>>
    /\ UNCHANGED <<deployment_mode, last_scan, deployment_last_discovery,
                   deployment_service_health, benchVars>>

-----------------------------------------------------------------------------
(* The session                                                             *)

\* st.session_state.deployment_service_health = {}
NoHealth == [k \in Keys |-> "none"]

IdleScan ==
    [called |-> FALSE,
     net    |-> [k \in Keys |-> [tcp |-> "refused", o |-> Status(200)]],
     result |-> CatalogueDefaults,
     probes |-> [k \in Keys |-> <<>>],
     containers |-> [exc |-> "", value |-> <<>>]]

InitSession ==
    /\ DEFAULT_SERVICES = CatalogueDefaults
    /\ deployment_mode = "none"
    /\ deployment_config = None
    /\ shared = {}
    /\ last_scan = IdleScan
    /\ deployment_last_discovery = None
    /\ deployment_service_health = NoHealth

InitWizard ==
    /\ InitSession
    /\ config_file = None
    /\ override_file = None
    /\ env_file = None

IdleSave == [pc |-> "idle", previous |-> None, pending |-> <<>>, buffer |-> <<>>,
             flushed |-> <<>>]
IdleEnv == [called |-> FALSE]
IdleReport == [called |-> FALSE]
IdleValidation == [called |-> FALSE]

InitTools ==
    /\ save_call = IdleSave
    /\ env = IdleEnv
    /\ report = IdleReport
    /\ validation = IdleValidation

InitBench ==
    /\ svc = BenchService
    /\ health = IdleHealth
    /\ http = IdleHttp
    /\ docker = IdleDocker
    /\ registry = <<>>
    /\ override = <<>>
    /\ loaded = IdleLoad
    /\ InitTools

Init == InitWizard /\ InitBench

Next ==
    \/ SelectStandard
    \/ SelectCustom
    \/ ChangeMode
    \/ \E net \in Networks, run \in SessionDockerRuns : AutoDetect(net, run)
    \/ \E preset \in Presets : ApplyPreset(preset)
    \/ \E key \in ToggleKeys : ToggleUseExisting(key)
    \/ \E edit \in Edits, net \in SaveNetworks, ticked \in SUBSET TestKeys :
          SaveConfiguration(edit, net, ticked)

\* a configuration session of the wizard, from the catalogue defaults
Spec == Init /\ [][Next]_vars

\* a discovery session: scans, presets and checkboxes, nothing saved
NextScan ==
    \/ SelectCustom
    \/ ChangeMode
    \/ \E net \in Networks, run \in ScanDockerRuns : AutoDetect(net, run)
    \/ \E preset \in Presets : ApplyPreset(preset)
    \/ \E key \in ToggleKeys : ToggleUseExisting(key)

SpecScan == Init /\ [][NextScan]_vars

\* an editing session: scans between submissions of the connection form
NextRescan ==
    \/ SelectCustom
    \/ \E net \in Networks, run \in SessionDockerRuns : AutoDetect(net, run)
    \/ \E key \in ToggleKeys : ToggleUseExisting(key)
    \/ \E edit \in Edits, net \in SaveNetworks, ticked \in SUBSET TestKeys :
          SaveConfiguration(edit, net, ticked)

SpecRescan == Init /\ [][NextRescan]_vars

-----------------------------------------------------------------------------
(* The probe bench: one ServiceConfig value, probed against every network  *)

BenchConfigs ==
    {[BenchService EXCEPT !.default_port = d[1], !.health_check_url = d[2],
                          !.detected_host = dh, !.detected_port = dp,
                          !.use_existing = ue,
                          !.custom_host = ch, !.custom_port = cp] :
        d \in BenchDescriptors, dh \in BenchDetectedHosts, dp \in BenchDetectedPorts,
        ue \in BOOLEAN, ch \in BenchCustomHosts, cp \in BenchCustomPorts}

InitProbe ==
    /\ InitWizard
    /\ svc \in BenchConfigs
    /\ health = IdleHealth
    /\ http = IdleHttp
    /\ docker = IdleDocker
    /\ registry = <<>>
    /\ override = <<>>
    /\ loaded = IdleLoad
    /\ InitTools

CheckServiceHealth(tcp, o) ==
    /\ ~health.called
    /\ health' = [called |-> TRUE, tcp |-> tcp, o |-> o,
                  result |-> check_service_health(svc, tcp, o)]
    /\ UNCHANGED <<svc, http, docker, fileVars, toolVars, wizardVars>>

NextProbe == \E tcp \in TcpOutcomes, o \in BenchHttpOutcomes : CheckServiceHealth(tcp, o)

SpecProbe == InitProbe /\ [][NextProbe]_vars

-----------------------------------------------------------------------------
(* The HTTP bench: each classifier against every answer                    *)

CheckHttpEndpoint(impl, o) ==
    /\ ~http.called
    /\ http' = [called |-> TRUE, impl |-> impl, o |-> o,
                result |-> IF impl = "deploy_config"
                           THEN check_http_endpoint(<<"url">>, o)
                           ELSE hc_check_http_endpoint(impl = "health_check+requests",
                                                       <<"url">>, o)]
    /\ UNCHANGED <<svc, health, docker, fileVars, toolVars, wizardVars>>

NextHttp == \E impl \in HttpImpls, o \in HttpOutcomes : CheckHttpEndpoint(impl, o)

SpecHttp == Init /\ [][NextHttp]_vars

-----------------------------------------------------------------------------
(* The container bench: check_docker_containers against every CLI outcome  *)

CheckDockerContainers(run) ==
    /\ ~docker.called
    /\ docker' = [called |-> TRUE, run |-> run, result |-> check_docker_containers(run)]
    /\ UNCHANGED <<svc, health, http, fileVars, toolVars, wizardVars>>

NextDocker == \E run \in DockerRuns : CheckDockerContainers(run)

SpecDocker == Init /\ [][NextDocker]_vars

-----------------------------------------------------------------------------
(* The file bench: registries handed to the generators                     *)

\* the keys of the bench registries, in catalogue order
BenchKeys == <<"postgres", "redis", "n8n", "ollama">>

Reverse(list) == [i \in 1..Len(list) |-> list[Len(list) + 1 - i]]

BenchOrders == {BenchKeys, Reverse(BenchKeys)}

BenchKeySet == {BenchKeys[i] : i \in 1..Len(BenchKeys)}

\* one entry of a bench registry: the catalogue's descriptor with the state
\* fields a session or an edited file can give it
bench_entry(key, reused, n8n_port, n8n_detected, postgres_port, redis_host) ==
    [CatalogueDefaults[key] EXCEPT
        !.use_existing  = (key \in reused),
        !.custom_port   = IF key = "n8n" THEN n8n_port
                          ELSE IF key = "postgres" THEN postgres_port ELSE None,
        !.detected_port = IF key = "n8n" THEN n8n_detected ELSE None,
        !.detected_host = IF key = "n8n" /\ ~IsNone(n8n_detected)
                          THEN Some(localhost) ELSE None,
        !.custom_host   = IF key = "redis" THEN redis_host ELSE None]

BenchRegistries ==
    {<<>>} \cup
    {[i \in 1..Len(order) |->
         [key   |-> order[i],
          value |-> bench_entry(order[i], reused, n8n_port, n8n_detected,
                                postgres_port, redis_host)]] :
        order \in BenchOrders, reused \in SUBSET BenchKeySet,
        n8n_port \in {None, Some(15678)}, n8n_detected \in {None, Some(9000)},
        postgres_port \in {None, Some(15432)}, redis_host \in {None, Some(<<>>)}}

InitFiles ==
    /\ InitWizard
    /\ svc = BenchService
    /\ health = IdleHealth
    /\ http = IdleHttp
    /\ docker = IdleDocker
    /\ registry \in BenchRegistries
    /\ override = <<>>
    /\ loaded = IdleLoad
    /\ InitTools

MaxGenerations == 2

\* GenerateOverride, had the function stored each effective port back
GenerateOverride_stores_ports ==
    /\ Len(override) < MaxGenerations
    /\ override' = Append(override, generate_docker_compose_override(registry))
    /\ registry' = [i \in 1..Len(registry) |->
                       [registry[i] EXCEPT
                           !.value.custom_port = Some(effective_port(registry[i].value))]]
    /\ UNCHANGED <<loaded, probeVars, toolVars, wizardVars>>

\* one call of generate_docker_compose_override(registry)
GenerateOverride ==
    /\ Len(override) < MaxGenerations
    /\ override' = Append(override, generate_docker_compose_override(registry))
    /\ registry' = registry
    /\ UNCHANGED <<loaded, probeVars, toolVars, wizardVars>>

NextOverride == GenerateOverride

SpecOverride == InitFiles /\ [][NextOverride]_vars

\* edits of a saved file
without_member(object, name) ==
    JObject(SelectSeq(object.v, LAMBDA m : m.name # name))

with_member(object, name, value) ==
    IF HasMember(object, name)
    THEN JObject([i \in 1..Len(object.v) |->
                     IF object.v[i].name = name THEN Member(name, value) ELSE object.v[i]])
    ELSE JObject(Append(object.v, Member(name, value)))

DocumentEdits ==
    {"malformed", "array", "no_services", "services_null", "services_array", "no_version"}
ServiceEdits ==
    {"service_number", "missing_required", "missing_optional", "unknown_field",
     "wrong_type"}

edit_service(kind, service_data) ==
    CASE kind = "service_number"   -> JNumber(5)
      [] kind = "missing_required" -> without_member(service_data, "name")
      [] kind = "missing_optional" ->
           without_member(without_member(service_data, "use_existing"), "custom_port")
      [] kind = "unknown_field"    -> with_member(service_data, "extra", JNumber(1))
      [] OTHER -> with_member(service_data, "default_port", JString(<<"abc">>))

edit_file(kind, content) ==
    LET data     == content.value
        services == member(data, "services")
    IN  CASE kind = "malformed"      -> InvalidText
          [] kind = "array"          -> JsonText(JArray(<<data>>))
          [] kind = "no_services"    -> JsonText(without_member(data, "services"))
          [] kind = "services_null"  -> JsonText(with_member(data, "services", JNull))
          [] kind = "services_array" -> JsonText(with_member(data, "services", JArray(<<>>)))
          [] kind = "no_version"     -> JsonText(without_member(data, "version"))
          [] OTHER ->
               JsonText(with_member(data, "services",
                   with_member(services, services.v[1].name,
                               edit_service(kind, services.v[1].value))))

\* save_deployment_config(registry, config_path)
SaveDeploymentConfig ==
    /\ IsNone(config_file)
    /\ ~loaded.called
    /\ config_file' = Some(save_deployment_config(registry))
    /\ loaded' = [loaded EXCEPT !.file_is = "saved"]
    /\ UNCHANGED <<registry, override, probeVars, toolVars, sessionVars, override_file,
                   env_file>>

\* somebody edits the saved file
EditFile(kind) ==
    /\ loaded.file_is = "saved"
    /\ ~loaded.called
    /\ kind \in ServiceEdits => registry # <<>>
    /\ config_file' = Some(edit_file(kind, Val(config_file)))
    /\ loaded' = [loaded EXCEPT !.file_is = kind]
    /\ UNCHANGED <<registry, override, probeVars, toolVars, sessionVars, override_file,
                   env_file>>

\* load_deployment_config(config_path), and _load_service_configs on a page
\* without a session registry
LoadDeploymentConfig ==
    /\ ~loaded.called
    /\ loaded' = [loaded EXCEPT
                     !.called  = TRUE,
                     !.result  = load_deployment_config(config_file),
                     !.configs = load_service_configs(deployment_config, config_file,
                                                      DEFAULT_SERVICES)]
    /\ UNCHANGED <<registry, override, probeVars, toolVars, wizardVars>>

NextFiles ==
    \/ SaveDeploymentConfig
    \/ \E kind \in DocumentEdits \cup ServiceEdits : EditFile(kind)
    \/ LoadDeploymentConfig

SpecFiles == InitFiles /\ [][NextFiles]_vars

-----------------------------------------------------------------------------
(* Resolution Engine                                                       *)

\* a host or port that is "set": not None, not "" and not 0
HostSet(o) == o # None /\ o # Some(<<>>)
PortSet(o) == o # None /\ o # Some(0)

\* C1: effective_host is custom_host when custom_host is non-empty, whatever
\* use_existing is; otherwise detected_host when use_existing is true and
\* detected_host is non-empty; otherwise default_host.
C1_EffectiveHostPrecedence ==
    /\ HostSet(svc.custom_host) => effective_host(svc) = Val(svc.custom_host)
    /\ (~HostSet(svc.custom_host) /\ svc.use_existing /\ HostSet(svc.detected_host))
          => effective_host(svc) = Val(svc.detected_host)
    /\ (~HostSet(svc.custom_host) /\ ~(svc.use_existing /\ HostSet(svc.detected_host)))
          => effective_host(svc) = svc.default_host

\* a fresh deployment with a custom host next to a different detected host
C1_Witness ==
    /\ ~svc.use_existing
    /\ svc.custom_host = Some(HostDb)
    /\ svc.detected_host = Some(HostLan)
    /\ effective_host(svc) = HostDb

\* C2 as stated: with use_existing = false, effective_host never equals a
\* detected_host that differs from default_host, for any combination of
\* custom_host, detected_host and default_host.
C2_NeverDetectedWhenFresh ==
    ~svc.use_existing =>
        ~(/\ svc.detected_host # None
          /\ Val(svc.detected_host) # svc.default_host
          /\ effective_host(svc) = Val(svc.detected_host))

\* C2 as amended: with use_existing = false, effective_host never equals a
\* detected_host that differs from default_host, unless custom_host is set
\* to that very host.
C2_NeverDetectedWhenFreshUnlessCustom ==
    ~svc.use_existing =>
        \/ svc.detected_host = None
        \/ Val(svc.detected_host) = svc.default_host
        \/ effective_host(svc) # Val(svc.detected_host)
        \/ svc.custom_host = svc.detected_host

\* a fresh deployment, no custom host, something else detected
C2_Witness ==
    /\ ~svc.use_existing
    /\ svc.custom_host = None
    /\ svc.detected_host = Some(HostLan)
    /\ effective_host(svc) = svc.default_host

\* C3: effective_port is custom_port if set, else detected_port if set, else
\* default_port, whatever use_existing is; None and 0 are never "set".
C3_EffectivePortPrecedence ==
    /\ PortSet(svc.custom_port) => effective_port(svc) = Val(svc.custom_port)
    /\ (~PortSet(svc.custom_port) /\ PortSet(svc.detected_port))
          => effective_port(svc) = Val(svc.detected_port)
    /\ (~PortSet(svc.custom_port) /\ ~PortSet(svc.detected_port))
          => effective_port(svc) = svc.default_port

\* a zero custom port falls through to the detected port of a fresh deployment
C3_Witness ==
    /\ ~svc.use_existing
    /\ svc.custom_port = Some(0)
    /\ svc.detected_port = Some(9000)
    /\ effective_port(svc) = 9000

-----------------------------------------------------------------------------
(* Infrastructure Prober                                                   *)

\* the bench hosts that embed a scheme and a host name: the name and the
\* scheme a reader takes from them (host names compare without case)
EmbeddedName(host) ==
    CASE host = HostHttps -> <<"llm.example.com">>
      [] host = HostHttpPath -> <<"ha.lan">>
      [] OTHER -> host
EmbeddedScheme(host) ==
    CASE host = HostHttps -> <<"https">>
      [] OTHER -> <<"http">>
SchemeHosts == {HostHttps, HostHttpPath}

\* path and query of each bench template, "/" standing for an empty path
TemplatePathQuery(template) ==
    CASE template = TplApi -> <<"/", "api", "/">>
      [] template = TplQuery -> <<"/", "v1", "/", "models", "?", "limit=1">>
      [] template = TplNoPath -> <<"/">>
      [] OTHER -> <<>>

HttpEvents(trace) == {i \in 1..Len(trace) : trace[i].op = "http"}

\* C5: when the effective host embeds an http:// or https:// scheme, the bare
\* host name is what is composed with the port everywhere: the TCP probe
\* target, the probe URL (under the extracted scheme), connection_string and
\* the endpoint values saved to the env file.
C5_BareHostEverywhere ==
    effective_host(svc) \in SchemeHosts =>
        LET bare     == EmbeddedName(effective_host(svc))
            hostport == bare \o <<":", ToString(effective_port(svc))>>
            trace    == health.result.trace
        IN  /\ connection_string(svc) = hostport
            /\ From(env_base_url(svc), 3) = hostport
            /\ env_db_host(svc) = bare
            /\ \A i \in 1..Len(trace) : trace[i].host = bare
            /\ \A i \in HttpEvents(trace) :
                   StartsWith(trace[i].url,
                              EmbeddedScheme(effective_host(svc)) \o <<"://">> \o hostport)

\* C6: check_service_health tries the TCP connection to the effective
\* (hostname, port) first; if that fails it returns (False, a message naming
\* port and host) without any HTTP request; if it succeeds and the template
\* is a tcp:// marker it returns (True, None) without any HTTP request; an
\* HTTP GET is issued only after a successful TCP connection for a template
\* that is no tcp:// marker.
C6_TcpFirstThenHttp ==
    health.called =>
        LET r      == health.result
            t      == r.trace
            marker == svc.health_check_url = TplTcp
            port   == effective_port(svc)
            name   == EmbeddedName(effective_host(svc))
        IN  /\ \A i \in HttpEvents(t) :
                   /\ i = 2
                   /\ t[1].op = "tcp"
                   /\ health.tcp = "open"
                   /\ ~marker
            /\ r.exc = "" =>
                   /\ Len(t) >= 1
                   /\ t[1] = [op |-> "tcp", host |-> name, port |-> port, url |-> <<>>]
                   /\ health.tcp # "open" =>
                          /\ ~r.ok
                          /\ HttpEvents(t) = {}
                          /\ r.error # None
                          /\ Contains(Val(r.error), ToString(port))
                          /\ \A j \in 1..Len(name) : Contains(Val(r.error), name[j])
                   /\ (health.tcp = "open" /\ marker) =>
                          /\ r.ok
                          /\ r.error = None
                          /\ HttpEvents(t) = {}
                   /\ (health.tcp = "open" /\ ~marker) => HttpEvents(t) = {2}

\* an open port on an HTTP service: the GET follows the connection
C6_Witness ==
    /\ health.called
    /\ health.tcp = "open"
    /\ svc.health_check_url = TplApi
    /\ Len(health.result.trace) = 2
    /\ health.result.trace[1].op = "tcp"
    /\ health.result.trace[2].op = "http"

\* C7: the probed URL is scheme://host:port followed by the template's path
\* and query; host, port and scheme are the effective ones (scheme http
\* unless the host embeds one), never the template's.
C7_ProbeUrl ==
    health.called =>
        \A i \in HttpEvents(health.result.trace) :
            health.result.trace[i].url =
                EmbeddedScheme(effective_host(svc)) \o <<"://">>
                    \o EmbeddedName(effective_host(svc))
                    \o <<":", ToString(effective_port(svc))>>
                    \o TemplatePathQuery(svc.health_check_url)

\* an https template with a query, probed on a plain host: http is used
C7_Witness ==
    /\ health.called
    /\ svc.health_check_url = TplQuery
    /\ effective_host(svc) = HostDb
    /\ HttpEvents(health.result.trace) = {2}
    /\ health.result.trace[2].url =
           <<"http", "://", "db.example.com", ":", ToString(effective_port(svc)),
             "/", "v1", "/", "models", "?", "limit=1">>

\* C9: check_service_health returns (is_healthy, error_message) for every
\* ServiceConfig and every network outcome; no exception reaches the caller.
C9_NeverRaises == health.called => health.result.exc = ""

\* C8: in each of the three HTTP classifiers, every status below 500 is
\* healthy (401, 403 and 404 among them); a status of 500 or more is
\* unhealthy with the status code in the error message; a failure below HTTP
\* is unhealthy with an error text.
C8_HttpClassification ==
    http.called =>
        LET r == http.result
        IN  IF http.o.kind = "status"
            THEN IF http.o.code < 500
                 THEN r.ok /\ r.error = None
                 ELSE /\ ~r.ok
                      /\ r.error # None
                      /\ Contains(Val(r.error), ToString(http.o.code))
            ELSE ~r.ok /\ r.error # None /\ Val(r.error) # <<>>

-----------------------------------------------------------------------------
(* Discovery and the service configuration editors                         *)

\* C4: in every registry of a session that starts from the catalogue
\* defaults, a service with can_use_existing = false has use_existing = false.
C4_NonReusableNeverReused ==
    ~IsNone(deployment_config) =>
        \A k \in Keys :
            ~Val(deployment_config)[k].can_use_existing
                => ~Val(deployment_config)[k].use_existing

\* "Reuse All Infrastructure" was applied: every reusable service is reused
C4_Witness ==
    /\ deployment_mode = "custom"
    /\ ~IsNone(deployment_config)
    /\ \A k \in Keys :
           Val(deployment_config)[k].use_existing
               = Val(deployment_config)[k].can_use_existing
    /\ \E k \in Keys : ~Val(deployment_config)[k].can_use_existing

\* C10: a scan records detected_host/detected_port for a reusable service
\* only when the TCP probe of its default endpoint succeeded and the health
\* check confirmed it healthy; an open port whose health check fails leaves
\* both unset.
C10_DetectedOnlyWhenHealthy ==
    last_scan.called =>
        \A k \in Keys :
            LET entry   == last_scan.result[k]
                n       == last_scan.net[k]
                healthy == check_service_health(entry, n.tcp, n.o).ok
            IN  entry.can_use_existing =>
                    /\ (entry.detected_host # None \/ entry.detected_port # None)
                           => (n.tcp = "open" /\ healthy)
                    /\ (n.tcp = "open" /\ ~healthy)
                           => (entry.detected_host = None /\ entry.detected_port = None)

\* a registry with the detected_host and detected_port of every entry blanked
WithoutDetected(services) ==
    [k \in DOMAIN services |-> [services[k] EXCEPT !.detected_host = None,
                                                   !.detected_port = None]]

\* C11: a scan merged into a live session registry changes only
\* detected_host and detected_port: use_existing, custom_host, custom_port and
\* the descriptor fields of every service are the same after the scan as
\* before it, and the registry keeps its keys.
C11_ScanChangesOnlyDetected ==
    [][((\E net \in Networks, run \in ScanDockerRuns : AutoDetect(net, run))
            /\ ~IsNone(deployment_config))
          => /\ ~IsNone(deployment_config')
             /\ DOMAIN Val(deployment_config') = DOMAIN Val(deployment_config)
             /\ WithoutDetected(Val(deployment_config'))
                    = WithoutDetected(Val(deployment_config))]_vars

\* a scan found postgres while the user had it reused at a host and port of
\* their own
C11_Witness ==
    /\ last_scan.called
    /\ ~IsNone(deployment_config)
    /\ last_scan.result["postgres"].detected_port = Some(5432)
    /\ Val(deployment_config)["postgres"].detected_port = Some(5432)
    /\ Val(deployment_config)["postgres"].use_existing
    /\ Val(deployment_config)["postgres"].custom_host = Some(HostHttps)
    /\ Val(deployment_config)["postgres"].custom_port = Some(15432)

\* C12: for a catalogue entry with can_use_existing = false a scan performs
\* no probe and returns the descriptor as it is (detected_host and
\* detected_port unset, use_existing false); for every other entry it probes
\* the descriptor's default host and default port, never an override the
\* session holds.
C12_ScanProbesDefaults ==
    last_scan.called =>
        \A k \in Keys :
            LET descriptor == CatalogueDefaults[k]
                probes     == last_scan.probes[k]
            IN  IF ~descriptor.can_use_existing
                THEN /\ probes = <<>>
                     /\ last_scan.result[k] = descriptor
                ELSE /\ probes # <<>>
                     /\ \A i \in 1..Len(probes) :
                            /\ probes[i].host = descriptor.default_host
                            /\ probes[i].port = descriptor.default_port

\* a scan found postgres at its default endpoint in a session that holds
\* another host and port for it
C12_Witness ==
    /\ last_scan.called
    /\ Len(last_scan.probes["postgres"]) = 2
    /\ last_scan.probes["n8n"] = <<>>
    /\ ~IsNone(deployment_config)
    /\ Val(deployment_config)["postgres"].custom_host = Some(HostHttps)
    /\ Val(deployment_config)["postgres"].custom_port = Some(15432)
    /\ Val(deployment_config)["postgres"].detected_host = Some(localhost)

\* C13: after a scan that does not find a service's default endpoint, the
\* service's detected_host and detected_port in the session registry are
\* unset, whatever an earlier scan had set; and the discovery snapshot of
\* the session is the summary of the latest scan, services and containers.
C13_ScanSupersedes ==
    last_scan.called =>
        /\ ~IsNone(deployment_config) =>
               \A k \in Keys :
                   last_scan.net[k].tcp # "open" =>
                       /\ Val(deployment_config)[k].detected_host = None
                       /\ Val(deployment_config)[k].detected_port = None
        /\ deployment_last_discovery
               = Some(last_discovery(last_scan.result, last_scan.containers.value))

-----------------------------------------------------------------------------
(* Container enumeration                                                   *)

\* the names a listing should retain: those of the JSON objects whose
\* lower-cased name contains a catalogue key
LcarsNames(stdout) ==
    {Val(stdout[i].value.Names) :
        i \in {j \in 1..Len(stdout) :
                  /\ stdout[j].json = "object"
                  /\ "Names" \in DOMAIN stdout[j].value
                  /\ ~IsNone(stdout[j].value.Names)
                  /\ \E k \in Keys : Contains(Lower(Val(stdout[j].value.Names)), k)}}

\* C14: check_docker_containers never raises; it returns the empty mapping
\* when the CLI is missing, times out, exits non-zero or otherwise fails to
\* run; otherwise lines that are not container objects are skipped and
\* exactly the containers whose lower-cased name contains a catalogue key
\* are retained.
C14_ContainersNeverRaise ==
    docker.called =>
        /\ docker.result.exc = ""
        /\ (docker.run.raised # "" \/ docker.run.returncode # 0)
               => docker.result.value = <<>>
        /\ (docker.run.raised = "" /\ docker.run.returncode = 0)
               => DOMAIN docker.result.value = LcarsNames(docker.run.stdout)

-----------------------------------------------------------------------------
(* Orchestration override                                                  *)

\* the lines of block occur in text, one after the other
HasBlock(text, block) ==
    \E i \in 1..(Len(text) - Len(block) + 1) : SubSeq(text, i, i + Len(block) - 1) = block

ServiceLine(key) == <<"  ", key, ":">>

\* the entry of the registry for key, and whether the registry disables it
Reused(key) ==
    \E i \in 1..Len(registry) :
        /\ registry[i].key = key
        /\ registry[i].value.use_existing
        /\ registry[i].value.can_use_existing

\* C15: in the generated override a service is assigned to the "disabled"
\* profile if and only if its use_existing and can_use_existing are both
\* true; a service with can_use_existing = false is never disabled.
C15_DisabledProfile ==
    override # <<>> =>
        \A i \in 1..Len(registry) :
            HasBlock(override[1], <<ServiceLine(registry[i].key),
                                    <<"    profiles:">>, <<"      - disabled">> >>)
                <=> (registry[i].value.use_existing /\ registry[i].value.can_use_existing)

\* an override was generated for a registry that marks n8n, which cannot be
\* reused, and postgres, which can, as reused
C15_Witness ==
    /\ override # <<>>
    /\ \E i \in 1..Len(registry) :
           /\ registry[i].key = "n8n"
           /\ registry[i].value.use_existing
           /\ ~registry[i].value.can_use_existing
    /\ Reused("postgres")

\* C16: a port entry "effective_port:default_port" is emitted for a service
\* if and only if the service is not disabled and its effective port differs
\* from its default port; no other service gets a ports entry.
C16_PortRemap ==
    override # <<>> =>
        \A i \in 1..Len(registry) :
            LET service  == registry[i].value
                remapped == /\ ~(service.use_existing /\ service.can_use_existing)
                            /\ effective_port(service) # service.default_port
            IN  /\ HasBlock(override[1],
                            <<ServiceLine(registry[i].key), <<"    ports:">>,
                              <<"      - \"", ToString(effective_port(service)), ":",
                                ToString(service.default_port), "\"">> >>)
                       <=> remapped
                /\ HasBlock(override[1], <<ServiceLine(registry[i].key), <<"    ports:">> >>)
                       => remapped

\* an override was generated for a registry with a disabled service at a
\* port of its own, a deployed service at a port of its own and a deployed
\* service at its default port
C16_Witness ==
    /\ override # <<>>
    /\ \E i, j, k \in 1..Len(registry) :
           /\ registry[i].key = "postgres" /\ Reused("postgres")
           /\ registry[i].value.custom_port = Some(15432)
           /\ registry[j].key = "n8n"
           /\ registry[j].value.custom_port = Some(15678)
           /\ registry[k].key = "ollama" /\ ~Reused("ollama")

\* the dependency entries of the text, in order
DependencyLines(text) ==
    SelectSeq(text, LAMBDA line : Len(line) = 2 /\ line[1] = "      - ")

\* C17: if postgres or redis is disabled, n8n gets a depends_on list with
\* exactly those of postgres and redis that are not disabled; if both are
\* disabled the list is written as "depends_on: []"; if neither is disabled
\* no depends_on is written.
C17_DependsOnRewrite ==
    override # <<>> =>
        LET text == override[1]
            kept == (IF Reused("postgres") THEN <<>> ELSE <<"postgres">>)
                        \o (IF Reused("redis") THEN <<>> ELSE <<"redis">>)
        IN  CASE Reused("postgres") /\ Reused("redis") ->
                   /\ HasBlock(text, <<ServiceLine("n8n"), <<"    depends_on: []">> >>)
                   /\ DependencyLines(text) = <<>>
                   /\ ~HasBlock(text, << <<"    depends_on:">> >>)
              [] Reused("postgres") \/ Reused("redis") ->
                   /\ HasBlock(text, <<ServiceLine("n8n"), <<"    depends_on:">>,
                                       <<"      - ", kept[1]>> >>)
                   /\ DependencyLines(text) = << <<"      - ", kept[1]>> >>
                   /\ ~HasBlock(text, << <<"    depends_on: []">> >>)
              [] OTHER ->
                   /\ ~HasBlock(text, << <<"    depends_on:">> >>)
                   /\ ~HasBlock(text, << <<"    depends_on: []">> >>)
                   /\ DependencyLines(text) = <<>>

\* an override was generated for a registry that disables both postgres and
\* redis
C17_Witness ==
    /\ override # <<>>
    /\ Reused("postgres") /\ Reused("redis")
    /\ HasBlock(override[1], << <<"    depends_on: []">> >>)

-----------------------------------------------------------------------------
(* Persisted configuration                                                 *)

\* C19: load_deployment_config applied to the file save_deployment_config
\* wrote returns a registry with the same keys in the same order and, for
\* each key, a ServiceConfig equal field by field.
C19_SaveLoadRoundTrip ==
    (loaded.called /\ loaded.file_is = "saved") =>
        /\ loaded.result.exc = ""
        /\ ~IsNone(loaded.result.value)
        /\ LET back == Val(loaded.result.value)
           IN  /\ Len(back) = Len(registry)
               /\ \A i \in 1..Len(registry) :
                      /\ back[i].key = registry[i].key
                      /\ \A f \in 1..Len(FieldNames) :
                             back[i].value[FieldNames[f]]
                                 = registry[i].value[FieldNames[f]]

\* a registry in another order than the catalogue's, with an empty
\* custom_host and custom and detected ports, was saved and loaded again
C19_Witness ==
    /\ loaded.called /\ loaded.file_is = "saved"
    /\ Len(registry) = 4
    /\ registry[1].key = "ollama"
    /\ registry[3].value.custom_host = Some(<<>>)
    /\ registry[2].value.custom_port = Some(15678)
    /\ registry[2].value.detected_port = Some(9000)
    /\ registry[4].value.use_existing

\* C20: load_deployment_config never raises and returns None for every
\* load failure: a missing file, text that is not JSON, and JSON that does
\* not have the shape {version, services: {key: {ServiceConfig fields}}}.
C20_LoadFailureIsNone ==
    (loaded.called /\ loaded.file_is # "saved") =>
        /\ loaded.result.exc = ""
        /\ IsNone(loaded.result.value)

-----------------------------------------------------------------------------
(* deploy_config.save_deployment_config, statement by statement: the       *)
(* config dict is built, open(output_path, 'w') creates or truncates the   *)
(* file, json.dump writes the document chunk by chunk through the buffered *)
(* file object, and the end of the with block closes the file.             *)

\* what a file holds that was not written to its end: the chunks that
\* reached it, none after the truncation
PartialText(chunks) == [text |-> "partial", chunks |-> chunks]

\* json.JSONEncoder.iterencode(config): the chunks json.dump passes to
\* f.write, here the head of the document up to the opening of "services",
\* each service's entry, and the closing braces
iterencode(config) ==
    <<[chunk |-> "head", value |-> member(config, "version")]>>
        \o [i \in 1..Len(member(config, "services").v) |->
               [chunk |-> "service", value |-> member(config, "services").v[i]]]
        \o <<[chunk |-> "tail", value |-> JNull]>>

\* the text the chunks make up: the whole document once the closing braces
\* are there, text that json.load rejects before
text_of(chunks) ==
    IF chunks # <<>> /\ chunks[Len(chunks)].chunk = "tail"
    THEN JsonText(JObject(<<
             Member("version", chunks[1].value),
             Member("services",
                    JObject([i \in 1..(Len(chunks) - 2) |-> chunks[i + 1].value]))>>))
    ELSE PartialText(chunks)

\* config = {...}; with open(output_path, 'w') as f:
SaveOpen ==
    /\ save_call.pc = "idle"
    /\ save_call' = [pc       |-> "dump",
                     previous |-> config_file,
                     pending  |-> iterencode(save_deployment_config(registry).value),
                     buffer   |-> <<>>,
                     flushed  |-> <<>>]
    /\ config_file' = Some(text_of(<<>>))
    /\ UNCHANGED <<fileVars, probeVars, env, report, validation, sessionVars,
                   override_file, env_file>>

\* one f.write(chunk) of json.dump; the buffered writer passes its buffer
\* on to the file when the chunk fills it
SaveWrite(full) ==
    /\ save_call.pc = "dump"
    /\ save_call.pending # <<>>
    /\ \E buffer \in {Append(save_call.buffer, Head(save_call.pending))} :
        IF full
        THEN /\ save_call' = [save_call EXCEPT !.pending = Tail(@), !.buffer = <<>>,
                                               !.flushed = @ \o buffer]
             /\ config_file' = Some(text_of(save_call.flushed \o buffer))
        ELSE /\ save_call' = [save_call EXCEPT !.pending = Tail(@), !.buffer = buffer]
             /\ UNCHANGED config_file
    /\ UNCHANGED <<fileVars, probeVars, env, report, validation, sessionVars,
                   override_file, env_file>>

\* the with block is left, f.close() flushes the buffer: at the end of
\* json.dump, or on an exception raised inside it (TypeError for a value
\* json cannot serialise, OSError from a write, KeyboardInterrupt)
SaveClose(raised) ==
    /\ save_call.pc = "dump"
    /\ raised <=> save_call.pending # <<>>
    /\ save_call' = [save_call EXCEPT !.pc = IF raised THEN "raised" ELSE "done",
                                      !.buffer = <<>>,
                                      !.flushed = @ \o save_call.buffer]
    /\ config_file' = Some(text_of(save_call.flushed \o save_call.buffer))
    /\ UNCHANGED <<fileVars, probeVars, env, report, validation, sessionVars,
                   override_file, env_file>>

\* the process is killed inside the with block: the buffer is lost
SaveKill ==
    /\ save_call.pc = "dump"
    /\ save_call' = [save_call EXCEPT !.pc = "killed", !.buffer = <<>>]
    /\ UNCHANGED <<config_file, fileVars, probeVars, env, report, validation,
                   sessionVars, override_file, env_file>>

\* the registries the save bench writes, and the ones a file on disk was
\* written from before
SaveRegistries ==
    {r \in BenchRegistries :
        \/ r = <<>>
        \/ /\ r[1].key = "postgres"
           /\ \A i \in 1..Len(r) :
                /\ r[i].value.custom_host = None
                /\ r[i].value.detected_port = None
                /\ r[i].key \in {"n8n", "ollama"} =>
                       ~r[i].value.use_existing /\ r[i].value.custom_port = None}

PreviousRegistries == {r \in SaveRegistries : \A i \in 1..Len(r) : ~r[i].value.use_existing}

InitSave ==
    /\ InitSession
    /\ config_file \in {None} \cup {Some(save_deployment_config(r)) : r \in PreviousRegistries}
    /\ override_file = None
    /\ env_file = None
    /\ svc = BenchService
    /\ health = IdleHealth
    /\ http = IdleHttp
    /\ docker = IdleDocker
    /\ registry \in SaveRegistries
    /\ override = <<>>
    /\ loaded = IdleLoad
    /\ InitTools

NextSave ==
    \/ SaveOpen
    \/ \E full \in BOOLEAN : SaveWrite(full)
    \/ \E raised \in BOOLEAN : SaveClose(raised)
    \/ SaveKill

SpecSave == InitSave /\ [][NextSave]_vars

-----------------------------------------------------------------------------
(* Persisted configuration: one save call                                  *)

\* C21: at every point of a save_deployment_config call, an interruption
\* and an error raised midway included, the file holds either its complete
\* previous content or the complete new document.
C21_SaveNeverPartial ==
    save_call.pc # "idle" =>
        config_file \in {save_call.previous, Some(save_deployment_config(registry))}

-----------------------------------------------------------------------------
(* The env bench                                                           *)

\* the env bench: files of up to MaxEnvLines lines, each with its
\* terminator, the last one with or without
BenchEnvLines ==
    {<<"A", "=", "1">>, <<"K", "=", "old">>, <<"K", "=", "v">>, <<"KK", "=", "1">>,
     <<>>, <<" ">>, <<"A", "=", "1", "\f", "B">>, <<"A", "=", "0xFF">>}

Terminators == {"\n", "\r\n"}

MaxEnvLines == 2

BenchEnvTexts ==
    UNION {{Concat([i \in 1..n |-> lines[i] \o <<ends[i]>>]) :
               lines \in [1..n -> BenchEnvLines], ends \in [1..n -> Terminators]} :
           n \in 0..MaxEnvLines}

\* the same files with the last terminator missing
Unterminated(text) == IF text = <<>> THEN text ELSE SubSeq(text, 1, Len(text) - 1)

BenchEnvFiles ==
    {None} \cup {Some(text) : text \in BenchEnvTexts}
           \cup {Some(Unterminated(text)) : text \in BenchEnvTexts}

InitEnv ==
    /\ InitSession
    /\ config_file = None
    /\ override_file = None
    /\ env_file \in BenchEnvFiles
    /\ svc = BenchService
    /\ health = IdleHealth
    /\ http = IdleHttp
    /\ docker = IdleDocker
    /\ registry = <<>>
    /\ override = <<>>
    /\ loaded = IdleLoad
    /\ InitTools

\* one upsert_env_var(env_path, key, value) call
UpsertEnvVar(key, value) ==
    /\ ~env.called
    /\ \E result \in {upsert_env_var(env_file, key, value)} :
        /\ env' = [called |-> TRUE, before |-> env_file, key |-> key, value |-> value,
                   exc |-> result.exc]
        /\ env_file' = result.file
    /\ UNCHANGED <<probeVars, fileVars, save_call, report, validation, sessionVars,
                   config_file, override_file>>

NextEnv == \E value \in {<<"v">>, <<"http", "://", "ha.lan", ":", "8123">>} : UpsertEnvVar(<<"K">>, value)

SpecEnv == InitEnv /\ [][NextEnv]_vars

-----------------------------------------------------------------------------
(* The environment file                                                    *)

\* the lines of a file as its terminators delimit them
FileLines(file) == IF IsNone(file) THEN <<>> ELSE split_at(Val(file), Terminators)

\* the lines that do not assign the key
OtherLines(lines, key) == SelectSeq(lines, LAMBDA line : ~StartsWith(line, key \o <<"=">>))

\* C22: upsert_env_var leaves a file that ends with a newline, contains the
\* line key=value, contains no line starting with key= that has another
\* value, and contains all the other lines of the original file unchanged
\* and in their order, with no other line added or removed.
C22_UpsertFrame ==
    env.called =>
        /\ env.exc = ""
        /\ ~IsNone(env_file)
        /\ Val(env_file)[Len(Val(env_file))] = "\n"
        /\ In(env.key \o <<"=">> \o env.value, FileLines(env_file))
        /\ \A i \in 1..Len(FileLines(env_file)) :
              StartsWith(FileLines(env_file)[i], env.key \o <<"=">>) =>
                  FileLines(env_file)[i] = env.key \o <<"=">> \o env.value
        /\ OtherLines(FileLines(env_file), env.key) = OtherLines(FileLines(env.before), env.key)

-----------------------------------------------------------------------------
(* health_check: SERVICES, the checks of one service, run_health_check,    *)
(* print_status_report and main. The timestamp and the response times are  *)
(* clock readings and are left out.                                        *)

hc_service(url, container, port, critical) ==
    [url |-> url, container |-> container, port |-> port, critical |-> critical]

\* health_check.SERVICES, a dict as the sequence of its items
SERVICES ==
    <<[key |-> "homeassistant",
       value |-> hc_service(Some(<<"http", "://", "localhost", ":", "8123", "/", "api", "/">>),
                            <<"LCARS-", "homeassistant">>, 8123, TRUE)],
      [key |-> "n8n",
       value |-> hc_service(Some(<<"http", "://", "localhost", ":", "5678", "/", "healthz">>),
                            <<"LCARS-", "n8n">>, 5678, TRUE)],
      [key |-> "open-webui",
       value |-> hc_service(Some(<<"http", "://", "localhost", ":", "3000", "/", "health">>),
                            <<"LCARS-", "open-webui">>, 3000, TRUE)],
      [key |-> "ollama",
       value |-> hc_service(Some(<<"http", "://", "localhost", ":", "11434", "/", "api", "/", "tags">>),
                            <<"LCARS-", "ollama">>, 11434, TRUE)],
      [key |-> "whisper",
       value |-> hc_service(Some(<<"http", "://", "localhost", ":", "10300", "/">>),
                            <<"LCARS-", "whisper">>, 10300, FALSE)],
      [key |-> "piper",
       value |-> hc_service(Some(<<"http", "://", "localhost", ":", "10200", "/">>),
                            <<"LCARS-", "piper">>, 10200, FALSE)],
      [key |-> "openwakeword",
       value |-> hc_service(None, <<"LCARS-", "openwakeword">>, 10400, FALSE)],
      [key |-> "postgres",
       value |-> hc_service(None, <<"LCARS-", "postgres">>, 5432, TRUE)],
      [key |-> "redis",
       value |-> hc_service(None, <<"LCARS-", "redis">>, 6379, FALSE)]>>

ServiceNames == {SERVICES[i].key : i \in 1..Len(SERVICES)}

\* int(text): the number a numeral stands for, ValueError for other text
int(text) ==
    CASE text = "0"    -> [exc |-> "", value |-> 0]
      [] text = "-1"   -> [exc |-> "", value |-> -1]
      [] text = "1"    -> [exc |-> "", value |-> 1]
      [] text = "8080" -> [exc |-> "", value |-> 8080]
      [] text = "65535" -> [exc |-> "", value |-> 65535]
      [] text = "65536" -> [exc |-> "", value |-> 65536]
      [] text = "40"   -> [exc |-> "", value |-> 40]
      [] text = "50"   -> [exc |-> "", value |-> 50]
      [] text = "100"  -> [exc |-> "", value |-> 100]
      [] text = "2048" -> [exc |-> "", value |-> 2048]
      [] text = "8192" -> [exc |-> "", value |-> 8192]
      [] OTHER         -> [exc |-> "ValueError", value |-> 0]

\* text.strip(), for a command's output
strip(text) == SelectSeq(text, LAMBDA t : t \notin Whitespace \cup {"\n"})

\* check_port('localhost', port): connect_ex's result, False on socket.error
check_port(tcp) == tcp = "open"

\* the docker inspect call of check_container_running, on a host
docker_inspect(host, container) ==
    CASE host.docker = "up" ->
           CliExit(0, IF container \in host.running THEN <<"true", "\n">>
                      ELSE <<"false", "\n">>)
      [] host.docker = "daemon_down" -> CliExit(1, <<"\n">>)
      [] OTHER -> CliRaised(host.docker)

\* check_container_running(container_name): False on TimeoutExpired,
\* CalledProcessError and FileNotFoundError, another exception propagates
check_container_running(run) ==
    IF run.raised \in {"TimeoutExpired", "CalledProcessError", "FileNotFoundError"}
    THEN [exc |-> "", value |-> FALSE]
    ELSE IF run.raised # "" THEN [exc |-> run.raised, value |-> FALSE]
    ELSE [exc |-> "", value |-> Lower(strip(run.stdout)) = <<"true">>]

\* ServiceStatus.healthy, had the HTTP result entered it
healthy_needs_http(status) ==
    status.container_running /\ status.port_open /\ status.http_ok # Some(FALSE)

\* ServiceStatus.healthy
healthy(status) == status.container_running /\ status.port_open

\* check_service(name, config) -> ServiceStatus
check_service(name, config, host) ==
    LET container == check_container_running(docker_inspect(host, config.container))
        endpoint == IF TruthyStr(config.url)
                    THEN hc_check_http_endpoint(host.requests_available, Val(config.url),
                                                host.http[name])
                    ELSE [ok |-> FALSE, error |-> None]
    IN  [exc   |-> container.exc,
         value |-> [name              |-> name,
                    container_running |-> container.value,
                    port_open         |-> check_port(host.tcp[name]),
                    http_ok           |-> IF TruthyStr(config.url) THEN Some(endpoint.ok) ELSE None,
                    error_message     |-> endpoint.error,
                    critical          |-> config.critical]]

\* the loop of run_health_check over SERVICES.items(), from item i on
RECURSIVE check_services_from(_, _, _)
check_services_from(i, host, so_far) ==
    IF i > Len(SERVICES) \/ so_far.exc # "" THEN so_far
    ELSE LET checked == check_service(SERVICES[i].key, SERVICES[i].value, host)
         IN  check_services_from(i + 1, host,
                 IF checked.exc # "" THEN [so_far EXCEPT !.exc = checked.exc]
                 ELSE [exc              |-> "",
                       services_status  |-> Append(so_far.services_status,
                                                   [key |-> SERVICES[i].key,
                                                    value |-> checked.value]),
                       all_healthy      |-> so_far.all_healthy /\ healthy(checked.value),
                       critical_healthy |-> so_far.critical_healthy
                                              /\ (healthy(checked.value)
                                                    \/ ~checked.value.critical)])

\* the memory block of get_system_resources: any exception gives the error entry
memory_info(meminfo) ==
    IF meminfo = "readable"
    THEN [total_gb |-> 16, available_gb |-> 8, used_percent |-> 50]
    ELSE [error |-> <<"Unable to read memory info">>]

\* the disk block: df's second output line split into columns; no entry when
\* there are fewer than two lines, the error entry on any exception
disk_info(df) ==
    IF df.raised # "" THEN "disk" :> [error |-> <<"Unable to read disk info">>]
    ELSE IF Len(df.stdout) < 2 THEN <<>>
    ELSE IF Len(df.stdout[2]) < 5
            \/ \E c \in {2, 4, 5} : int(df.stdout[2][c]).exc # ""
    THEN "disk" :> [error |-> <<"Unable to read disk info">>]
    ELSE "disk" :> [total_gb     |-> int(df.stdout[2][2]).value,
                    available_gb |-> int(df.stdout[2][4]).value,
                    used_percent |-> int(df.stdout[2][5]).value]

\* the GPU block: nvidia-smi's output split at ", "; no entry on a non-zero
\* exit, None on TimeoutExpired and FileNotFoundError; IndexError and
\* ValueError of the parsing and every other exception propagate
gpu_info(nvidia) ==
    IF nvidia.raised \in {"TimeoutExpired", "FileNotFoundError"}
    THEN [exc |-> "", entry |-> "gpu" :> None]
    ELSE IF nvidia.raised # "" THEN [exc |-> nvidia.raised, entry |-> <<>>]
    ELSE IF nvidia.returncode # 0 THEN [exc |-> "", entry |-> <<>>]
    ELSE IF Len(nvidia.stdout) < 4 THEN [exc |-> "IndexError", entry |-> <<>>]
    ELSE IF \E c \in 2..4 : int(nvidia.stdout[c]).exc # ""
    THEN [exc |-> "ValueError", entry |-> <<>>]
    ELSE [exc   |-> "",
          entry |-> "gpu" :> Some([name                |-> nvidia.stdout[1],
                                   memory_used_mb      |-> int(nvidia.stdout[2]).value,
                                   memory_total_mb     |-> int(nvidia.stdout[3]).value,
                                   utilization_percent |-> int(nvidia.stdout[4]).value])]

\* get_system_resources() -> dict
get_system_resources(host) ==
    [exc   |-> gpu_info(host.nvidia).exc,
     value |-> ("memory" :> memory_info(host.meminfo))
                  @@ disk_info(host.df) @@ gpu_info(host.nvidia).entry]

\* get_ollama_models() -> list: [] on any exception
get_ollama_models(host) ==
    IF host.ollama = "answers" THEN <<[name |-> <<"llama3.1:8b">>, size_gb |-> 4]>>
    ELSE <<>>

\* run_health_check(verbose) -> SystemStatus
run_health_check(host) ==
    LET checked == check_services_from(1, host,
                       [exc |-> "", services_status |-> <<>>,
                        all_healthy |-> TRUE, critical_healthy |-> TRUE])
        resources == get_system_resources(host)
    IN  IF checked.exc # "" THEN [exc |-> checked.exc, value |-> <<>>]
        ELSE IF resources.exc # "" THEN [exc |-> resources.exc, value |-> <<>>]
        ELSE [exc   |-> "",
              value |-> [all_healthy      |-> checked.all_healthy,
                         critical_healthy |-> checked.critical_healthy,
                         services         |-> checked.services_status,
                         system_resources |-> resources.value,
                         llm_models       |-> get_ollama_models(host)]]

\* print_status_report(status): the exception it raises, "" for none.
\* 'error' not in mem / disk, then ['used_percent']; the GPU's memory ratio
print_status_report(status) ==
    LET mem  == get(status.system_resources, "memory", <<>>)
        disk == get(status.system_resources, "disk", <<>>)
        gpu  == get(status.system_resources, "gpu", None)
    IN  IF "error" \notin DOMAIN mem /\ "used_percent" \notin DOMAIN mem THEN "KeyError"
        ELSE IF "error" \notin DOMAIN disk /\ "used_percent" \notin DOMAIN disk
        THEN "KeyError"
        ELSE IF ~IsNone(gpu) /\ Val(gpu).memory_total_mb = 0 THEN "ZeroDivisionError"
        ELSE ""

\* main(): the exit status of the process; an uncaught exception ends the
\* interpreter with status 1
main(args, host) ==
    LET status == run_health_check(host)
        printed == IF status.exc # "" THEN ""
                   ELSE IF args.json THEN ""
                   ELSE print_status_report(status.value)
    IN  [status    |-> status,
         uncaught  |-> IF status.exc # "" THEN status.exc ELSE printed,
         exit_code |-> IF status.exc # "" \/ printed # "" THEN 1
                       ELSE IF ~status.value.critical_healthy THEN 2
                       ELSE IF ~status.value.all_healthy THEN 1
                       ELSE 0]

-----------------------------------------------------------------------------
(* The health bench: the health check CLI on every host of the bench       *)

\* what df -BG / prints, as lines of columns
DfTwoLines ==
    CliExit(0, <<<<"Filesystem", "1G-blocks", "Used", "Available", "Use%", "Mounted">>,
                 <<"/dev/sda1", "100", "50", "50", "50", "/">>>>)
DfOutcomes ==
    {DfTwoLines, CliExit(1, <<>>), CliRaised("FileNotFoundError"),
     CliExit(0, <<<<"Filesystem">>, <<"overlay", "-", "-", "-", "-", "/">>>>)}

\* what nvidia-smi prints, split at ", ": one GPU, two GPUs (the second
\* line starts inside the fourth piece), a GPU that reports no memory, nothing
NvidiaOutcomes ==
    {CliRaised("FileNotFoundError"), CliRaised("TimeoutExpired"),
     CliRaised("PermissionError"), CliExit(9, <<"">>),
     CliExit(0, <<"RTX", "2048", "8192", "40">>),
     CliExit(0, <<"RTX", "2048", "8192", "40\nRTX", "2048", "8192", "40">>),
     CliExit(0, <<"RTX", "0", "0", "0">>),
     CliExit(0, <<"">>)}

DockerStates == {"up", "daemon_down", "FileNotFoundError", "TimeoutExpired", "PermissionError"}

\* the services whose state the bench varies: a critical and a non-critical
\* one with an HTTP endpoint, a critical and a non-critical one without
HealthVaried == {"homeassistant", "whisper", "postgres", "redis"}

container_of(name) == lookup(SERVICES, name).container

\* a host on which the services in stopped have no running container, the
\* ones in closed no open port and the ones in failing answer 503
bench_host(stopped, closed, failing, tools) ==
    [docker   |-> tools.docker,
     running  |-> {container_of(name) : name \in ServiceNames \ stopped},
     tcp      |-> [name \in ServiceNames |-> IF name \in closed THEN "refused" ELSE "open"],
     http     |-> [name \in ServiceNames |->
                      IF name \in failing THEN Status(503) ELSE Status(200)],
     requests_available |-> tools.requests_available,
     meminfo  |-> tools.meminfo,
     df       |-> tools.df,
     nvidia   |-> tools.nvidia,
     ollama   |-> tools.ollama]

QuietTools ==
    [docker |-> "up", requests_available |-> FALSE, meminfo |-> "readable",
     df |-> DfTwoLines, nvidia |-> CliRaised("FileNotFoundError"), ollama |-> "answers"]

BenchTools ==
    {[QuietTools EXCEPT !.docker = d, !.df = df, !.nvidia = nvidia] :
        d \in DockerStates, df \in DfOutcomes, nvidia \in NvidiaOutcomes}
      \cup {[QuietTools EXCEPT !.requests_available = r, !.meminfo = m, !.ollama = o] :
               r \in BOOLEAN, m \in {"readable", "unreadable"}, o \in {"answers", "silent"}}

BenchHosts ==
    {bench_host(stopped, closed, failing, QuietTools) :
        stopped \in SUBSET HealthVaried, closed \in SUBSET HealthVaried,
        failing \in SUBSET {"homeassistant", "whisper"}}
      \cup {bench_host(stopped, {}, {}, tools) :
               stopped \in {{}, {"whisper"}, {"postgres"}}, tools \in BenchTools}

\* the command lines: plain, --verbose, --json, --verbose --json
BenchArgs == [verbose : BOOLEAN, json : BOOLEAN]

InitHealth ==
    /\ InitWizard
    /\ svc = BenchService
    /\ health = IdleHealth
    /\ http = IdleHttp
    /\ docker = IdleDocker
    /\ registry = <<>>
    /\ override = <<>>
    /\ loaded = IdleLoad
    /\ save_call = IdleSave
    /\ env = IdleEnv
    /\ validation = IdleValidation
    /\ report \in {[called |-> FALSE, host |-> host] : host \in BenchHosts}

\* one run of python3 health_check.py with the arguments
RunHealthCheck(args) ==
    /\ ~report.called
    /\ report' = [called |-> TRUE, host |-> report.host, args |-> args,
                  result |-> main(args, report.host)]
    /\ UNCHANGED <<probeVars, fileVars, save_call, env, validation, wizardVars>>

NextHealth == \E args \in BenchArgs : RunHealthCheck(args)

SpecHealth == InitHealth /\ [][NextHealth]_vars

-----------------------------------------------------------------------------
(* Health verification                                                     *)

\* the host's own view of a service: its container runs and its port is open
Up(host, name) ==
    /\ host.docker = "up"
    /\ container_of(name) \in host.running
    /\ host.tcp[name] = "open"

\* C23: in the report a service is healthy iff its container is running and
\* its port is open, whatever the HTTP result; all_healthy is true iff every
\* service is healthy, critical_healthy iff every critical service is
\* healthy, so critical_healthy = false implies all_healthy = false.
C23_HealthAggregate ==
    (report.called /\ report.result.status.exc = "") =>
        LET status == report.result.status.value
            entries == 1..Len(status.services)
            Healthy(i) == /\ status.services[i].value.container_running
                          /\ status.services[i].value.port_open
        IN  /\ [i \in entries |-> status.services[i].key]
                  = [i \in 1..Len(SERVICES) |-> SERVICES[i].key]
            /\ \A i \in entries : Healthy(i) <=> Up(report.host, status.services[i].key)
            /\ status.all_healthy <=> \A i \in entries : Healthy(i)
            /\ status.critical_healthy <=>
                   \A i \in entries : status.services[i].value.critical => Healthy(i)
            /\ ~status.critical_healthy => ~status.all_healthy

\* a report in which every critical service is healthy, a non-critical one
\* is not, and a healthy service fails its HTTP check
C23_Witness ==
    /\ report.called
    /\ report.result.status.exc = ""
    /\ report.result.status.value.critical_healthy
    /\ ~report.result.status.value.all_healthy
    /\ \E i \in 1..Len(report.result.status.value.services) :
          /\ report.result.status.value.services[i].value.http_ok = Some(FALSE)
          /\ report.result.status.value.services[i].value.container_running
          /\ report.result.status.value.services[i].value.port_open

\* the exit status the documented codes assign to a host
ExitCodeOf(host) ==
    IF \E i \in 1..Len(SERVICES) : SERVICES[i].value.critical /\ ~Up(host, SERVICES[i].key)
    THEN 2
    ELSE IF \E i \in 1..Len(SERVICES) : ~Up(host, SERVICES[i].key) THEN 1
    ELSE 0

\* C24: the CLI exits with 0 exactly when all services are healthy, with 1
\* exactly when some non-critical service is unhealthy and every critical
\* one is healthy, with 2 exactly when a critical service is unhealthy, in
\* verbose and in JSON mode alike.
C24_ExitCode == report.called => report.result.exit_code = ExitCodeOf(report.host)

\* C25: run_health_check always completes and returns a SystemStatus that
\* covers every service; a failure of container introspection yields
\* container_running = false, and a failure while gathering memory, disk,
\* GPU or model data degrades to a partial or empty result.
C25_ReportAlwaysCompletes ==
    report.called =>
        /\ report.result.status.exc = ""
        /\ {report.result.status.value.services[i].key :
               i \in 1..Len(report.result.status.value.services)} = ServiceNames
        /\ report.host.docker # "up" =>
               \A i \in 1..Len(report.result.status.value.services) :
                   ~report.result.status.value.services[i].value.container_running

-----------------------------------------------------------------------------
(* deploy_config.validate_port and validate_hostname                       *)

\* Python values a caller can pass as a port
PyNone       == [type |-> "NoneType"]
PyInt(n)     == [type |-> "int", n |-> n]
PyBool(b)    == [type |-> "bool", b |-> b]
PyStr(text)  == [type |-> "str", text |-> text]
\* a float: a finite one by its integral part, inf, nan
PyFloat(f)   == [type |-> "float", repr |-> f]
PyList       == [type |-> "list"]

\* int(port): the value of an int or bool, the integral part of a finite
\* float (OverflowError for inf, ValueError for nan), the number a str
\* spells after stripping (ValueError otherwise), TypeError for None and
\* other objects
py_int(port) ==
    CASE port.type = "int"   -> [exc |-> "", value |-> port.n]
      [] port.type = "bool"  -> [exc |-> "", value |-> IF port.b THEN 1 ELSE 0]
      [] port.type = "float" ->
           IF port.repr = "inf" THEN [exc |-> "OverflowError", value |-> 0]
           ELSE IF port.repr = "nan" THEN [exc |-> "ValueError", value |-> 0]
           ELSE int(port.repr)
      [] port.type = "str"   ->
           IF Len(strip(port.text)) = 1 THEN int(strip(port.text)[1])
           ELSE [exc |-> "ValueError", value |-> 0]
      [] OTHER -> [exc |-> "TypeError", value |-> 0]

\* validate_port(port) -> (is_valid, validated_port, error_message)
validate_port(port) ==
    LET port_int == py_int(port)
    IN  IF port_int.exc \in {"ValueError", "TypeError"}
        THEN [exc |-> "", is_valid |-> FALSE, validated_port |-> None,
              error_message |-> Some(<<"Port must be a number">>)]
        ELSE IF port_int.exc # ""
        THEN [exc |-> port_int.exc, is_valid |-> FALSE, validated_port |-> None,
              error_message |-> None]
        ELSE IF port_int.value < 1 \/ port_int.value > 65535
        THEN [exc |-> "", is_valid |-> FALSE, validated_port |-> None,
              error_message |-> Some(<<"Port must be between 1 and 65535">>)]
        ELSE [exc |-> "", is_valid |-> TRUE, validated_port |-> Some(port_int.value),
              error_message |-> None]

\* text.split(sep): the pieces between the separators, empty ones included
RECURSIVE split(_, _)
split(text, sep) ==
    IF ~Contains(text, sep) THEN <<text>>
    ELSE LET i == FindFirst(text, {sep}, 1)
         IN  <<SubSeq(text, 1, i - 1)>> \o split(From(text, i + 1), sep)

\* a label of 64 characters
LongLabel == "aaaaaaaaaaaaaaaaaaaaaaaaaaaaaaaaaaaaaaaaaaaaaaaaaaaaaaaaaaaaaaaa"

\* socket.gethostbyname(hostname): the name is encoded with the idna codec
\* first, which raises UnicodeError for a label that is empty (other than
\* after a final dot) or longer than 63 characters; a name with a null
\* character is refused with TypeError; then the resolver answers or
\* raises socket.gaierror
gethostbyname(hostname, dns) ==
    LET labels == split(hostname, ".")
    IN  IF Contains(hostname, "\\0") THEN "TypeError"
        ELSE IF \/ \E i \in 1..(Len(labels) - 1) : labels[i] = <<>>
                \/ \E i \in 1..Len(labels) : Contains(labels[i], LongLabel)
        THEN "UnicodeError"
        ELSE IF dns = "resolves" THEN "" ELSE "gaierror"

\* validate_hostname(hostname) -> (is_valid, error_message)
validate_hostname(hostname, dns) ==
    IF hostname = <<>>
    THEN [exc |-> "", is_valid |-> FALSE,
          error_message |-> Some(<<"Hostname cannot be empty">>)]
    ELSE IF hostname \in {<<"localhost">>, <<"127.0.0.1">>, <<"::1">>}
    THEN [exc |-> "", is_valid |-> TRUE, error_message |-> None]
    ELSE IF gethostbyname(hostname, dns) \in {"", "gaierror"}
    THEN [exc |-> "", is_valid |-> TRUE, error_message |-> None]
    ELSE [exc |-> gethostbyname(hostname, dns), is_valid |-> FALSE,
          error_message |-> None]

\* the validation bench
BenchPorts ==
    {PyInt(n) : n \in (-5..40) \cup (65500..65540)}
      \cup {PyStr(<<text>>) : text \in {"8080", "0", "65535", "65536", "-1", "abc", "80.5"}}
      \cup {PyStr(<<>>), PyStr(<<" ", "8080", "\n">>), PyStr(<<"8080", " ", "1">>)}
      \cup {PyFloat(f) : f \in {"8080", "0", "65536", "inf", "nan"}}
      \cup {PyNone, PyBool(TRUE), PyBool(FALSE), PyList}

BenchHostnames ==
    {<<>>, <<"localhost">>, <<"127.0.0.1">>, <<"::1">>, <<"192.168.1.50">>,
     <<"db", ".", "example", ".", "com">>, <<"db", ".", "example", ".", "com", ".">>,
     <<"db", ".", ".", "example">>, <<".">>, <<".", "db">>,
     <<LongLabel, ".", "com">>, <<"db", "\\0">>, <<" ">>,
     <<"http", "://", "db", ".", "example">>}

InitValidate == InitWizard /\ InitBench

ValidatePort(port) ==
    /\ ~validation.called
    /\ validation' = [called |-> TRUE, op |-> "validate_port", input |-> port,
                      result |-> validate_port(port)]
    /\ UNCHANGED <<probeVars, fileVars, save_call, env, report, wizardVars>>

ValidateHostname(hostname, dns) ==
    /\ ~validation.called
    /\ validation' = [called |-> TRUE, op |-> "validate_hostname", input |-> hostname,
                      result |-> validate_hostname(hostname, dns)]
    /\ UNCHANGED <<probeVars, fileVars, save_call, env, report, wizardVars>>

NextValidate ==
    \/ \E port \in BenchPorts : ValidatePort(port)
    \/ \E hostname \in BenchHostnames, dns \in {"resolves", "fails"} :
          ValidateHostname(hostname, dns)

SpecValidate == InitValidate /\ [][NextValidate]_vars

-----------------------------------------------------------------------------
(* Validation                                                              *)

\* C26: validation is reported as a structured result and never as an
\* exception: validate_port returns (True, p, None) exactly when the input
\* converts to an integer p with 1 <= p <= 65535 and (False, None, message)
\* for every other input; validate_hostname returns (False, message) for
\* an empty hostname and a structured result for every other string.
C26_StructuredValidation ==
    /\ (validation.called /\ validation.op = "validate_port") =>
          /\ validation.result.exc = ""
          /\ IF /\ py_int(validation.input).exc = ""
                /\ py_int(validation.input).value \in 1..65535
             THEN /\ validation.result.is_valid
                  /\ validation.result.validated_port = Some(py_int(validation.input).value)
                  /\ validation.result.error_message = None
             ELSE /\ ~validation.result.is_valid
                  /\ validation.result.validated_port = None
                  /\ validation.result.error_message # None
    /\ (validation.called /\ validation.op = "validate_hostname") =>
          /\ validation.result.exc = ""
          /\ validation.input = <<>> =>
                 ~validation.result.is_valid /\ validation.result.error_message # None

-----------------------------------------------------------------------------
(* The catalogue bench: a caller that keeps the dict                       *)
(* detect_existing_services returns as its registry, which is what the     *)
(* Auto-Detect handler does for a session that has no registry, and then   *)
(* writes to its entries through the form, the presets and the checkboxes. *)

InitCatalogue ==
    /\ DEFAULT_SERVICES = CatalogueDefaults
    /\ deployment_mode = "custom"
    /\ deployment_config = None
    /\ shared = {}
    /\ last_scan = IdleScan
    /\ deployment_last_discovery = None
    /\ deployment_service_health = NoHealth
    /\ config_file = None
    /\ override_file = None
    /\ env_file = None
    /\ InitBench

NextCatalogue ==
    \/ \E net \in Networks, run \in SessionDockerRuns : AutoDetect(net, run)
    \/ \E preset \in Presets : ApplyPreset(preset)
    \/ \E key \in ToggleKeys : ToggleUseExisting(key)
    \/ \E edit \in Edits, net \in SaveNetworks, ticked \in SUBSET TestKeys :
          SaveConfiguration(edit, net, ticked)

SpecCatalogue == InitCatalogue /\ [][NextCatalogue]_vars

-----------------------------------------------------------------------------
(* The service catalogue                                                   *)

\* C27: the catalogue is immutable in effect: after any sequence of scans
\* followed by the wizard's writes to the returned entries, every field of
\* every catalogue entry has its declared default value, and no entry of the
\* session registry is an object of the catalogue.
C27_CatalogueImmutable ==
    /\ DEFAULT_SERVICES = CatalogueDefaults
    /\ shared = {}

-----------------------------------------------------------------------------
(* Orchestration override: one block per service                           *)

\* the lines of the text that open the block of the service
BlocksOf(text, key) == {i \in 1..Len(text) : text[i] = ServiceLine(key)}

\* C28: in the generated override each service key appears at most once as
\* a mapping key under "services:"; the disabled-profile entries, the n8n
\* depends_on entry and the port entries never give two blocks for the
\* same service.
C28_OneBlockPerService ==
    \A g \in 1..Len(override) :
        \A key \in BenchKeySet : Cardinality(BlocksOf(override[g], key)) <= 1

-----------------------------------------------------------------------------
(* The connection form: tests and saves                                    *)

NextForm ==
    \/ SelectCustom
    \/ \E preset \in Presets : ApplyPreset(preset)
    \/ \E key \in ToggleKeys : ToggleUseExisting(key)
    \/ \E key \in TestKeys, net \in SaveNetworks : TestConnection(key, NoEdit, net)
    \/ \E edit \in Edits, net \in SaveNetworks, ticked \in SUBSET TestKeys :
          SaveConfiguration(edit, net, ticked)

\* a session of the connection form, from the catalogue defaults
SpecForm == Init /\ [][NextForm]_vars

\* the values a file gives a variable: what follows "key=" on its lines
EnvValues(file, key) ==
    {From(FileLines(file)[i], Len(key) + 2) :
        i \in {j \in 1..Len(FileLines(file)) :
                  StartsWith(FileLines(file)[j], key \o <<"=">>)}}

\* the registry of the most recent successful save, as the file keeps it
SavedService(key) == lookup(Val(load_deployment_config(config_file).value), key)

\* C29: after any sequence of successful saves, every endpoint variable the
\* save handler manages in docker/.env is determined by the registry of the
\* most recent save: the effective endpoint of a reused service, the in-stack
\* value of a fresh one, and no HA_URL left by an earlier save once Home
\* Assistant is deployed fresh.
C29_EnvFollowsLastSave ==
    ~IsNone(config_file) =>
        /\ EnvValues(env_file, <<"HA_URL">>) =
              IF SavedService("homeassistant").use_existing
              THEN {env_base_url(SavedService("homeassistant"))} ELSE {}
        /\ EnvValues(env_file, <<"OLLAMA_BASE_URL">>) =
              {IF SavedService("ollama").use_existing
               THEN env_base_url(SavedService("ollama")) ELSE InStackOllama}
        /\ EnvValues(env_file, <<"DB_POSTGRESDB_HOST">>) =
              {IF SavedService("postgres").use_existing
               THEN env_db_host(SavedService("postgres")) ELSE InStackDbHost}
        /\ EnvValues(env_file, <<"DB_POSTGRESDB_PORT">>) =
              {IF SavedService("postgres").use_existing
               THEN env_db_port(SavedService("postgres")) ELSE InStackDbPort}

\* C30: a save writes the configuration, the override and the env updates
\* only if every required service with use_existing = true passes
\* check_service_health at save time or has its "Use this service anyway"
\* checkbox ticked; a save with such a service unhealthy and unticked leaves
\* the three files as they were.
C30_SaveNeedsHealthOrTick ==
    [][\A edit \in Edits, net \in SaveNetworks, ticked \in SUBSET TestKeys :
          (/\ SaveConfiguration(edit, net, ticked)
           /\ <<config_file, override_file, env_file>>' #
                 <<config_file, override_file, env_file>>)
          => \A k \in Keys :
                LET service == render_form(Val(deployment_config), edit)[k]
                IN  service.required /\ service.use_existing
                    => \/ check_service_health(service, net[k].tcp, net[k].o).ok
                       \/ k \in ticked]_vars

====
